---- MODULE Spec2Model ----
(***************************************************************************)
(* Verification model of the stories service: the WebSocket event hub,     *)
(* the durable store with the read-through cache in front of it, the       *)
(* token-bucket rate limiter and its middleware, and the handlers of views *)
(* and reactions with the event publisher.  Each subsystem has its own     *)
(* specification over the shared variables; the variables of the other     *)
(* subsystems stay unchanged in it.                                        *)
(***************************************************************************)
EXTENDS Integers, Sequences, FiniteSets, Bags, TLC

VARIABLES
    \* ---- event hub (internal/websocket) ----
    clients,      \* Hub.clients: user id -> client, NoClient when absent
    cUser,        \* Client.userID of every allocated client, NoUser before NewClient
    send,         \* Client.send: the buffered contents of the channel
    sendClosed,   \* whether close(c.send) has happened
    handler,      \* position of the WebSocketHandler call that created the client
    rp,           \* position of Client.readPump
    wp,           \* position of Client.writePump
    connOpen,     \* whether c.conn is still open on this side
    written,      \* events written to the connection, in order
    closeSent,    \* whether the close frame was written to the peer
    evictors,     \* goroutines of broadcastToUsers blocked on h.unregister <- c
    hubPanic,     \* "none", or the hub command during which Hub.Run panicked
    hubCmd,       \* the command Hub.Run has received and is processing
    nextEvent,    \* number of events the publisher has built so far
    \* ---- durable store (internal/storage/postgres) ----
    stories,      \* table stories: row i has id i (SERIAL)
    audience,     \* table story_audience: pairs <<story id, user id>>
    follows,      \* table follows: pairs <<follower id, followed id>>
    now,          \* the wall clock, in seconds
    advances,     \* how often the clock has been advanced
    \* ---- cache layer (internal/cache) and HTTP handlers ----
    feedCache,    \* redis keys feed:user:{u}
    storyCache,   \* redis keys story:{s}
    feedReq,      \* the GET /feed or GET /feed/optimized call in flight
    postReq,      \* the POST /stories call in flight
    acked,        \* ids of the stories whose POST /stories was answered 201
    \* ---- rate limiter (internal/ratelimit) ----
    capacity,     \* capacity and refill of the bucket under study, 0 before NewTokenBucket
    bucket,       \* redis key rate_limit:{user}:{action}
    ticks,        \* the wall clock, in ticks of 1/TicksPerSec second
    tickCount,    \* how often the clock has been advanced
    call,         \* position of each caller of TokenBucket.Allow
    started,      \* number of Allow calls begun
    burst,        \* the calls evaluated within 1 s of the start of the call that created the key
    epoch,        \* the calls evaluated since the key was created or last refilled
    ret,          \* what the last call of TokenBucket.Allow returned to each caller
    remaining,    \* what the last call of TokenBucket.GetRemaining returned
    grants,       \* when the run is observed: for each allowed call on the bucket, in the order of the scripts, the time at which it read the clock
    neighbour,    \* the key rate_limit:{user}:{action} of another user of the same limiter
    cleared,      \* the patterns of the DELETE /cache/clear requests served
    \* ---- rate limit middleware (internal/http/middleware) ----
    mwResp,       \* the response of the middleware to the last request
    \* ---- views, reactions and the event publisher ----
    views,        \* table story_views, rows in insertion order
    reactions,    \* table reactions: the bag of its rows without id and reacted_at
    reactReq,     \* position of the POST /stories/{id}/reactions calls in progress
    reactCalls,   \* number of reaction requests received
    viewCalls,    \* number of view requests received
    published,    \* events handed to Hub.BroadcastToUser, in order
    selfCalls,    \* number of publisher calls by a connected author on their own story
    viewLog,      \* the view requests answered so far
    lastReact,    \* per story and user, the reaction request answered 200 last
    rejected,     \* the emojis of the reaction requests answered 400
    \* ---- Client.writePump between its receive and its write ----
    pending,      \* the message writePump received from c.send and has not written yet
    batched,      \* the largest number of messages written in one frame so far
    \* ---- the other keys of the cache layer ----
    followeesCache, \* redis keys user:followees:{u}
    statsCache,   \* redis keys user:stats:{u}
    followCalls,  \* number of follow and unfollow requests received
    followResp,   \* the answer to the last follow or unfollow request, with the keys it deleted
    purges,       \* how often keys were deleted from outside the service
    lastPurge,    \* the keys deleted last from outside the service
    \* ---- GET /feed/optimized ----
    metaResp,     \* the answer to the last GET /feed/optimized
    \* ---- authentication (internal/http/middleware, WebSocketHandler) ----
    ctx,          \* what the token check made of the request at hand
    authCalls,    \* number of requests that reached a token check
    \* ---- writes to redis from outside the service ----
    corrupted,    \* the keys whose value was overwritten with bytes that are no JSON
    \* ---- expiration worker (cmd/ephemeral-worker) ----
    worker,       \* position of each instance of EphemeralWorker.Start, with its last result
    tickReady,    \* whether the channel of each instance's ticker holds a tick
    cancelled,    \* whether the context of each instance was cancelled
    counted       \* per story, how many times a run of the soft delete counted it

hubVars == <<clients, cUser, send, sendClosed, handler, rp, wp, connOpen,
             written, closeSent, evictors, hubPanic, hubCmd, nextEvent>>

storeVars == <<stories, audience, follows, now, advances>>

cacheVars == <<feedCache, storyCache, feedReq, postReq, acked>>

rateVars == <<capacity, bucket, ticks, tickCount, call, started, burst, epoch,
             ret, remaining, grants, neighbour, cleared>>

reactVars == <<views, reactions, reactReq, reactCalls, viewCalls, published,
               selfCalls, viewLog, lastReact, rejected>>

pumpVars == <<pending, batched>>

limitVars == <<mwResp>>

keyVars == <<followeesCache, statsCache, followCalls, followResp, purges,
             lastPurge>>

metaVars == <<metaResp>>

authVars == <<ctx, authCalls>>

outsideVars == <<corrupted>>

workerVars == <<worker, tickReady, cancelled, counted>>

vars == <<hubVars, storeVars, cacheVars, rateVars, reactVars, pumpVars,
          limitVars, keyVars, metaVars, authVars, outsideVars, workerVars>>

otherThanHub == <<storeVars, cacheVars, rateVars, reactVars, pumpVars, limitVars,
                  keyVars, metaVars, authVars, outsideVars, workerVars>>

otherThanStore == <<hubVars, rateVars, reactVars, pumpVars, limitVars, keyVars,
                    metaVars, authVars, outsideVars, workerVars>>

otherThanCache == <<hubVars, rateVars, reactVars, pumpVars, limitVars, metaVars,
                    authVars, outsideVars, workerVars>>

otherThanRate == <<hubVars, storeVars, cacheVars, reactVars, pumpVars, limitVars,
                   keyVars, metaVars, authVars, outsideVars, workerVars>>

otherThanReact == <<hubVars, storeVars, cacheVars, rateVars, pumpVars, limitVars,
                    keyVars, metaVars, authVars, outsideVars, workerVars>>

otherThanPump == <<storeVars, cacheVars, rateVars, reactVars, limitVars, keyVars,
                   metaVars, authVars, outsideVars, workerVars>>

otherThanLimit == <<hubVars, storeVars, cacheVars, reactVars, pumpVars, keyVars,
                    metaVars, authVars, outsideVars, workerVars>>

----------------------------------------------------------------------------
(* Bounds of the hub model *)

\* number of WebSocket connections opened in one run
MaxClients == 2

\* capacity of Client.send; the program uses 256, the model a small queue
\* so that a full queue is reached
SendCap == 1

\* events the publisher hands to the hub in one run: enough to overfill a queue
MaxEvents == SendCap + 1

\* user ids: the subject of a JWT, which is the id of a users row
Users == {"1", "2"}
FirstUser == "1"
ClientIds == 1..MaxClients
NoClient == 0
NoUser == "none"

\* pongWait, in seconds: the read deadline set by readPump and moved by each pong
PongWait == 60

\* pingPeriod = (pongWait * 9) / 10: the period of the ping ticker of writePump
PingPeriod == (PongWait * 9) \div 10

\* Hub.Run is blocked in its select, or holds the command it has received.
IdleCmd == [op |-> "idle", c |-> NoClient, to |-> <<>>, ev |-> 0]

----------------------------------------------------------------------------
(* Hub: construction *)

HubInit ==
    /\ clients = [u \in Users |-> NoClient]
    /\ cUser = [c \in ClientIds |-> NoUser]
    /\ send = [c \in ClientIds |-> <<>>]
    /\ sendClosed = [c \in ClientIds |-> FALSE]
    /\ handler = [c \in ClientIds |-> "none"]
    /\ rp = [c \in ClientIds |-> "off"]
    /\ wp = [c \in ClientIds |-> "off"]
    /\ connOpen = [c \in ClientIds |-> FALSE]
    /\ written = [c \in ClientIds |-> <<>>]
    /\ closeSent = [c \in ClientIds |-> FALSE]
    /\ evictors = [c \in ClientIds |-> 0]
    /\ hubPanic = "none"
    /\ hubCmd = IdleCmd
    /\ nextEvent = 0

\* The process is alive: a panic in the Hub.Run goroutine ends the process.
Alive == hubPanic = "none"

\* WebSocketHandler: the token is valid, the connection is upgraded, NewClient
\* builds the client and the handler blocks on the unbuffered register channel.
\* Client ids are handed out in order, and the users being interchangeable the
\* first connection is taken to be FirstUser's.
WebSocketHandler(c, u) ==
    /\ Alive
    /\ cUser[c] = NoUser
    /\ \A d \in ClientIds : d < c => cUser[d] # NoUser
    /\ c = 1 => u = FirstUser
    /\ cUser' = [cUser EXCEPT ![c] = u]
    /\ connOpen' = [connOpen EXCEPT ![c] = TRUE]
    /\ handler' = [handler EXCEPT ![c] = "registering"]
    /\ UNCHANGED <<clients, send, sendClosed, rp, wp, written, closeSent,
                   evictors, hubPanic, hubCmd, nextEvent>>
    /\ UNCHANGED otherThanHub

\* Hub.Run, case client := <-h.register: the handler's send completes, Run
\* holds the command, RegisterClient returns and Client.Start starts both pumps.
RecvRegister(c) ==
    /\ Alive
    /\ hubCmd = IdleCmd
    /\ handler[c] = "registering"
    /\ handler' = [handler EXCEPT ![c] = "done"]
    /\ rp' = [rp EXCEPT ![c] = "reading"]
    /\ wp' = [wp EXCEPT ![c] = "running"]
    /\ hubCmd' = [IdleCmd EXCEPT !.op = "register", !.c = c]
    /\ UNCHANGED <<clients, cUser, send, sendClosed, connOpen, written,
                   closeSent, evictors, hubPanic, nextEvent>>
    /\ UNCHANGED otherThanHub

\* A register case that stores the new client without closing the old one.
CloseExistingSkipped(closed, old) == closed

\* close(existingClient.send) of the register case, when an entry exists.
CloseExisting(closed, old) ==
    IF old = NoClient THEN closed ELSE [closed EXCEPT ![old] = TRUE]

\* The body of the register case.  Closing a channel that is already closed
\* panics, before the new client is stored.
RunRegister ==
    /\ Alive
    /\ hubCmd.op = "register"
    /\ LET c == hubCmd.c
           u == cUser[c]
           old == clients[u]
       IN IF old # NoClient /\ sendClosed[old]
          THEN /\ hubPanic' = "register"
               /\ UNCHANGED <<clients, sendClosed>>
          ELSE /\ sendClosed' = CloseExisting(sendClosed, old)
               /\ clients' = [clients EXCEPT ![u] = c]
               /\ hubPanic' = "none"
    /\ hubCmd' = IdleCmd
    /\ UNCHANGED <<cUser, send, handler, rp, wp, connOpen, written, closeSent,
                   evictors, nextEvent>>
    /\ UNCHANGED otherThanHub

\* Client.readPump: ReadMessage fails (the peer left, the pong deadline passed
\* or the connection was closed on this side) and the deferred function blocks
\* on the unbuffered unregister channel.
ReadFail(c) ==
    /\ Alive
    /\ rp[c] = "reading"
    /\ rp' = [rp EXCEPT ![c] = "unregistering"]
    /\ UNCHANGED <<clients, cUser, send, sendClosed, handler, wp, connOpen,
                   written, closeSent, evictors, hubPanic, hubCmd,
                   nextEvent>>
    /\ UNCHANGED otherThanHub

\* Hub.Run, case client := <-h.unregister, sent by the reader's deferred
\* function, which then closes the connection.
RecvUnregisterReader(c) ==
    /\ Alive
    /\ hubCmd = IdleCmd
    /\ rp[c] = "unregistering"
    /\ rp' = [rp EXCEPT ![c] = "done"]
    /\ connOpen' = [connOpen EXCEPT ![c] = FALSE]
    /\ hubCmd' = [IdleCmd EXCEPT !.op = "unregister", !.c = c]
    /\ UNCHANGED <<clients, cUser, send, sendClosed, handler, wp, written,
                   closeSent, evictors, hubPanic, nextEvent>>
    /\ UNCHANGED otherThanHub

\* Hub.Run, case client := <-h.unregister, sent by a goroutine that
\* broadcastToUsers started after SendEvent failed.
RecvUnregisterEvictor(c) ==
    /\ Alive
    /\ hubCmd = IdleCmd
    /\ evictors[c] > 0
    /\ evictors' = [evictors EXCEPT ![c] = @ - 1]
    /\ hubCmd' = [IdleCmd EXCEPT !.op = "unregister", !.c = c]
    /\ UNCHANGED <<clients, cUser, send, sendClosed, handler, rp, wp, connOpen,
                   written, closeSent, hubPanic, nextEvent>>
    /\ UNCHANGED otherThanHub

\* An unregister case that never finds an entry and so closes nothing.
EntryNeverFound(c) == FALSE

\* The test of the unregister case: is there an entry under the client's user id.
HasEntry(c) == clients[cUser[c]] # NoClient

\* The body of the unregister case: the entry of the user is deleted and the
\* channel of the client that sent the command is closed.
RunUnregister ==
    /\ Alive
    /\ hubCmd.op = "unregister"
    /\ LET c == hubCmd.c
       IN IF HasEntry(c)
          THEN /\ clients' = [clients EXCEPT ![cUser[c]] = NoClient]
               /\ IF sendClosed[c]
                  THEN hubPanic' = "unregister" /\ UNCHANGED sendClosed
                  ELSE /\ sendClosed' = [sendClosed EXCEPT ![c] = TRUE]
                       /\ hubPanic' = "none"
          ELSE UNCHANGED <<clients, sendClosed, hubPanic>>
    /\ hubCmd' = IdleCmd
    /\ UNCHANGED <<cUser, send, handler, rp, wp, connOpen, written, closeSent,
                   evictors, nextEvent>>
    /\ UNCHANGED otherThanHub

\* EventPublisher.PublishStoryViewed / PublishStoryReacted for an actor other
\* than the author u: when IsUserConnected(u), the event is built and
\* Hub.BroadcastToUsers does a non-blocking send on the unbuffered broadcast
\* channel.  The send succeeds when Hub.Run is blocked in its select; when Run
\* is busy with a command the default branch drops the message.
Publish(u) ==
    /\ Alive
    /\ nextEvent < MaxEvents
    /\ clients[u] # NoClient
    /\ nextEvent' = nextEvent + 1
    /\ hubCmd' = IF hubCmd = IdleCmd
                 THEN [IdleCmd EXCEPT !.op = "broadcast", !.to = <<u>>,
                                      !.ev = nextEvent + 1]
                 ELSE hubCmd
    /\ UNCHANGED <<clients, cUser, send, sendClosed, handler, rp, wp, connOpen,
                   written, closeSent, evictors, hubPanic>>
    /\ UNCHANGED otherThanHub

\* Client.SendEvent on client c in hub state st: a send on a closed channel
\* panics; a send on a channel with room enqueues; otherwise the default
\* branch closes the channel and broadcastToUsers starts a goroutine that
\* will send the client on h.unregister.
SendEvent(st, c, e) ==
    IF st.closed[c] THEN [st EXCEPT !.panic = "broadcast"]
    ELSE IF Len(st.send[c]) < SendCap
         THEN [st EXCEPT !.send[c] = Append(@, e)]
         ELSE [st EXCEPT !.closed[c] = TRUE, !.evict[c] = @ + 1]

\* Hub.broadcastToUsers: the loop over the user ids of the message.
RECURSIVE broadcastToUsers(_, _, _)
broadcastToUsers(us, e, st) ==
    IF us = <<>> \/ st.panic # "none" THEN st
    ELSE LET c == clients[Head(us)]
         IN broadcastToUsers(Tail(us), e,
                             IF c = NoClient THEN st ELSE SendEvent(st, c, e))

\* The body of the broadcast case.
RunBroadcast ==
    /\ Alive
    /\ hubCmd.op = "broadcast"
    /\ LET st == broadcastToUsers(hubCmd.to, hubCmd.ev,
                     [send |-> send, closed |-> sendClosed,
                      evict |-> evictors, panic |-> "none"])
       IN /\ send' = st.send
          /\ sendClosed' = st.closed
          /\ evictors' = st.evict
          /\ hubPanic' = st.panic
    /\ hubCmd' = IdleCmd
    /\ UNCHANGED <<clients, cUser, handler, rp, wp, connOpen, written,
                   closeSent, nextEvent>>
    /\ UNCHANGED otherThanHub

\* Client.writePump, case message := <-c.send with ok: the message and all
\* messages queued behind it are written as one frame.
WriteFrame(c) ==
    /\ Alive
    /\ wp[c] = "running"
    /\ send[c] # <<>>
    /\ connOpen[c]
    /\ written' = [written EXCEPT ![c] = @ \o send[c]]
    /\ send' = [send EXCEPT ![c] = <<>>]
    /\ UNCHANGED <<clients, cUser, sendClosed, handler, rp, wp, connOpen,
                   closeSent, evictors, hubPanic, hubCmd, nextEvent>>
    /\ UNCHANGED otherThanHub

\* Client.writePump: NextWriter, w.Close or the ping write fails (the
\* connection is closed or the write deadline passed); the pump returns and
\* its deferred function closes the connection.  A message received from the
\* channel for that write is lost.
WriteFail(c) ==
    /\ Alive
    /\ wp[c] = "running"
    /\ send[c] # <<>> \/ ~sendClosed[c]
    /\ send' = [send EXCEPT ![c] = IF @ = <<>> THEN @ ELSE Tail(@)]
    /\ wp' = [wp EXCEPT ![c] = "done"]
    /\ connOpen' = [connOpen EXCEPT ![c] = FALSE]
    /\ UNCHANGED <<clients, cUser, sendClosed, handler, rp, written, closeSent,
                   evictors, hubPanic, hubCmd, nextEvent>>
    /\ UNCHANGED otherThanHub

\* Client.writePump, case <-c.send with !ok: the hub closed the channel and
\* it is drained; the close frame is written and the pump returns.
WriteClose(c) ==
    /\ Alive
    /\ wp[c] = "running"
    /\ send[c] = <<>>
    /\ sendClosed[c]
    /\ closeSent' = [closeSent EXCEPT ![c] = connOpen[c]]
    /\ wp' = [wp EXCEPT ![c] = "done"]
    /\ connOpen' = [connOpen EXCEPT ![c] = FALSE]
    /\ UNCHANGED <<clients, cUser, send, sendClosed, handler, rp, written,
                   evictors, hubPanic, hubCmd, nextEvent>>
    /\ UNCHANGED otherThanHub

NoEvent == 0

PumpInit ==
    /\ pending = [c \in ClientIds |-> NoEvent]
    /\ batched = 0

\* a frame with the queued messages ahead of the received one
FrameQueuedFirst(message, queued) == queued \o <<message>>

\* Client.writePump: w.Write(message), then for each of the n = len(c.send)
\* queued messages a newline and w.Write(<-c.send)
Frame(message, queued) == <<message>> \o queued

\* Client.writePump, case message, ok := <-c.send with ok: the receive alone.
\* The slot it frees in the channel can be filled by the hub before the
\* pump reads len(c.send).
WriteTake(c) ==
    /\ Alive
    /\ wp[c] = "running"
    /\ send[c] # <<>>
    /\ pending' = [pending EXCEPT ![c] = Head(send[c])]
    /\ send' = [send EXCEPT ![c] = Tail(@)]
    /\ wp' = [wp EXCEPT ![c] = "writing"]
    /\ UNCHANGED batched
    /\ UNCHANGED <<clients, cUser, sendClosed, handler, rp, connOpen, written,
                   closeSent, evictors, hubPanic, hubCmd, nextEvent>>
    /\ UNCHANGED otherThanPump

\* Client.writePump after the receive: NextWriter, the received message, the
\* messages queued by now, w.Close.
WriteBatch(c) ==
    /\ Alive
    /\ wp[c] = "writing"
    /\ connOpen[c]
    /\ written' = [written EXCEPT ![c] = @ \o Frame(pending[c], send[c])]
    /\ send' = [send EXCEPT ![c] = <<>>]
    /\ pending' = [pending EXCEPT ![c] = NoEvent]
    /\ batched' = IF Len(send[c]) + 1 > batched THEN Len(send[c]) + 1
                  ELSE batched
    /\ wp' = [wp EXCEPT ![c] = "running"]
    /\ UNCHANGED <<clients, cUser, sendClosed, handler, rp, connOpen,
                   closeSent, evictors, hubPanic, hubCmd, nextEvent>>
    /\ UNCHANGED otherThanPump

\* Client.writePump after the receive: NextWriter or w.Close fails; the pump
\* returns, its deferred function closes the connection and the received
\* message is lost.
WriteBatchFail(c) ==
    /\ Alive
    /\ wp[c] = "writing"
    /\ pending' = [pending EXCEPT ![c] = NoEvent]
    /\ wp' = [wp EXCEPT ![c] = "done"]
    /\ UNCHANGED batched
    /\ connOpen' = [connOpen EXCEPT ![c] = FALSE]
    /\ UNCHANGED <<clients, cUser, send, sendClosed, handler, rp, written,
                   closeSent, evictors, hubPanic, hubCmd, nextEvent>>
    /\ UNCHANGED otherThanPump

\* the hub with the write of a frame in two steps, for the connections of
\* one user
PumpNext ==
    \/ \E c \in ClientIds : WebSocketHandler(c, FirstUser)
    \/ \E c \in ClientIds : RecvRegister(c)
    \/ RunRegister
    \/ \E c \in ClientIds : ReadFail(c)
    \/ \E c \in ClientIds : RecvUnregisterReader(c)
    \/ \E c \in ClientIds : RecvUnregisterEvictor(c)
    \/ RunUnregister
    \/ Publish(FirstUser)
    \/ RunBroadcast
    \/ \E c \in ClientIds : WriteTake(c)
    \/ \E c \in ClientIds : WriteBatch(c)
    \/ \E c \in ClientIds : WriteBatchFail(c)
    \/ \E c \in ClientIds : WriteFail(c)
    \/ \E c \in ClientIds : WriteClose(c)

HubNext ==
    \/ \E c \in ClientIds, u \in Users : WebSocketHandler(c, u)
    \/ \E c \in ClientIds : RecvRegister(c)
    \/ RunRegister
    \/ \E c \in ClientIds : ReadFail(c)
    \/ \E c \in ClientIds : RecvUnregisterReader(c)
    \/ \E c \in ClientIds : RecvUnregisterEvictor(c)
    \/ RunUnregister
    \/ \E u \in Users : Publish(u)
    \/ RunBroadcast
    \/ \E c \in ClientIds : WriteFrame(c)
    \/ \E c \in ClientIds : WriteFail(c)
    \/ \E c \in ClientIds : WriteClose(c)


----------------------------------------------------------------------------
(* Durable store, cache layer and the handlers in front of them *)

\* stories created in one run
MaxStories == 1

\* clock advances in one run
MaxAdvances == 2

\* types.VisibilityPublic, types.VisibilityFriends, types.VisibilityPrivate
VisibilityPublic == "public"
VisibilityFriends == "friends"
VisibilityPrivate == "private"

\* CHECK (visibility IN ('FRIENDS', 'PRIVATE', 'PUBLIC')) of table stories
CheckVisibility == {"FRIENDS", "PRIVATE", "PUBLIC"}

\* values of the visibility field of a POST /stories body (validate:"required")
RequestVisibility == CheckVisibility \cup {VisibilityFriends}

\* expires_at TIMESTAMP DEFAULT (CURRENT_TIMESTAMP + INTERVAL '24 hours')
StoryLifetime == 24 * 3600

\* FeedCacheDuration = 45 * time.Second
FeedCacheDuration == 45

\* StoryCacheDuration = 10 * time.Minute
StoryCacheDuration == 10 * 60

\* FolloweesCacheDuration = 5 * time.Minute
FolloweesCacheDuration == 5 * 60

\* StatsCacheDuration = 2 * time.Minute
StatsCacheDuration == 2 * 60

\* steps by which the clock advances
TimeSteps == {1, FeedCacheDuration - 1, StoryLifetime}

StoryIds == 1..MaxStories

\* lists of story ids, as a query returns them
Seq1(S) == UNION {[1..n -> S] : n \in 0..Cardinality(S)}

\* an absent redis key
NoEntry == [present |-> FALSE, val |-> <<>>, exp |-> 0, valid |-> FALSE]

IdleFeedReq == [pc |-> "idle", user |-> NoUser, kind |-> "none", rows |-> <<>>,
                known |-> {}]

IdlePostReq == [pc |-> "idle", user |-> NoUser, id |-> 0, vis |-> "", aud |-> {}]

\* no follow or unfollow request was answered
NoFollowResp == [op |-> "none", status |-> 0, f |-> NoUser, g |-> NoUser,
                 had |-> {}]

KeyInit ==
    /\ followeesCache = [u \in Users |-> NoEntry]
    /\ statsCache = [u \in Users |-> NoEntry]
    /\ followCalls = 0
    /\ followResp = NoFollowResp
    /\ purges = 0
    /\ lastPurge = {}

StoreInit ==
    /\ stories = <<>>
    /\ audience = {}
    /\ follows = {}
    /\ now = 0
    /\ advances = 0
    /\ feedCache = [u \in Users |-> NoEntry]
    /\ storyCache = [i \in StoryIds |-> NoEntry]
    /\ feedReq = IdleFeedReq
    /\ postReq = IdlePostReq
    /\ acked = {}

\* an id the sequence of table stories handed to a transaction that was not
\* committed: no row has it, and no later story gets it
RolledBack == [author |-> NoUser, vis |-> "", created |-> 0, expires |-> 0,
               deleted |-> TRUE, deletedAt |-> 0]

\* the table stories has a row with id i
Exists(i) == i \in 1..Len(stories) /\ stories[i] # RolledBack

\* a json.Unmarshal that accepts any bytes
UnmarshalAnything(entry) == [val |-> entry.val, err |-> FALSE]

\* json.Unmarshal of the bytes of a key: an error when they are not the JSON
\* of a value
Unmarshal(entry) == [val |-> entry.val, err |-> ~entry.valid]

\* redis GET and json.Unmarshal: the value of a key that is present, has not
\* reached its expiry and deserializes
Hit(entry) == entry.present /\ now < entry.exp /\ ~Unmarshal(entry).err

\* json.Marshal and redis SET key value EX ttl
Entry(val, ttl) ==
    [present |-> TRUE, val |-> val, exp |-> now + ttl, valid |-> TRUE]

\* a DEL that deletes nothing
KeepFeeds(cache, us) == cache

\* redis DEL of the keys of one family (feed:user:{u}, user:followees:{u} or
\* user:stats:{u}) for the users u in us
DelFeeds(cache, us) == [u \in Users |-> IF u \in us THEN NoEntry ELSE cache[u]]

\* Postgres.CreateStory: the audience rows are inserted when the visibility
\* equals one of the two Go constants.
AudienceRows(id, vis, aud) ==
    IF vis = VisibilityPrivate \/ vis = VisibilityFriends
    THEN {<<id, a>> : a \in aud}
    ELSE {}

\* The WHERE clause of Postgres.GetStoriesForUser.
FeedVisible(i, v) ==
    \/ stories[i].vis = "PUBLIC"
    \/ stories[i].vis = "FRIENDS" /\ <<i, v>> \in audience
    \/ stories[i].vis = "PRIVATE" /\ <<i, v>> \in audience
    \/ stories[i].author = v

\* The WHERE clause of the user_stories table of GetOptimizedFeedForUser.
OptimizedVisible(i, v) ==
    /\ ~stories[i].deleted
    /\ stories[i].expires > now
    /\ \/ stories[i].vis = "PUBLIC"
       \/ stories[i].vis = "FRIENDS" /\ <<v, stories[i].author>> \in follows
       \/ stories[i].vis = "PRIVATE" /\ <<i, v>> \in audience
       \/ stories[i].author = v

\* ORDER BY created_at DESC: the orders in which a query may return the rows S.
Ordered(S) ==
    {r \in [1..Cardinality(S) -> S] :
        /\ \A a, b \in 1..Cardinality(S) : a # b => r[a] # r[b]
        /\ \A a, b \in 1..Cardinality(S) :
               a < b => stories[r[a]].created >= stories[r[b]].created}

\* Postgres.GetStoriesForUser: the rows the query selects.
GetStoriesForUser(v) == {i \in 1..Len(stories) : FeedVisible(i, v)}

\* the columns of r, the subquery of story_stats that groups table reactions
\* by story_id and reaction_type
ReactionGroupColumns == {"story_id", "reaction_type", "reaction_type_count"}

\* the columns of r that story_stats refers to: r.story_id in the join,
\* r.user_id in COUNT(DISTINCT r.user_id), r.reaction_type and
\* reaction_type_count in JSON_OBJECT_AGG
StoryStatsRefs == {"story_id", "user_id", "reaction_type", "reaction_type_count"}

\* PostgreSQL rejects a statement that refers to a column its source lacks
QueryRejected == ~(StoryStatsRefs \subseteq ReactionGroupColumns)

\* OptimizedFeedQuery.GetOptimizedFeedForUser: the rows the WHERE clause of
\* user_stories selects.
GetOptimizedFeedForUser(v) == {i \in 1..Len(stories) : OptimizedVisible(i, v)}

\* Postgres.CanUserViewStory for a story that exists: the switch over the
\* visibility read from the row.
CanUserViewStory(i, v) ==
    CASE stories[i].vis = VisibilityPublic -> TRUE
      [] stories[i].vis = VisibilityFriends ->
             stories[i].author = v \/ <<i, v>> \in audience
      [] stories[i].vis = VisibilityPrivate ->
             stories[i].author = v \/ <<i, v>> \in audience
      [] OTHER -> FALSE

\* The users whose feed key CacheService.CreateStory deletes.
InvalidatedByCreate(author, vis, aud) ==
    {author}
      \cup (IF vis = VisibilityPublic \/ vis = VisibilityFriends
            THEN {f \in Users : <<f, author>> \in follows} ELSE {})
      \cup (IF vis = VisibilityPrivate THEN aud ELSE {})

\* The clock advances; redis drops the keys that reach their expiry.
Advance(d) ==
    /\ advances < MaxAdvances
    /\ advances' = advances + 1
    /\ now' = now + d
    /\ feedCache' = [u \in Users |->
           IF feedCache[u].present /\ now + d >= feedCache[u].exp
           THEN NoEntry ELSE feedCache[u]]
    /\ storyCache' = [i \in StoryIds |->
           IF storyCache[i].present /\ now + d >= storyCache[i].exp
           THEN NoEntry ELSE storyCache[i]]
    /\ followeesCache' = [u \in Users |->
           IF followeesCache[u].present /\ now + d >= followeesCache[u].exp
           THEN NoEntry ELSE followeesCache[u]]
    /\ statsCache' = [u \in Users |->
           IF statsCache[u].present /\ now + d >= statsCache[u].exp
           THEN NoEntry ELSE statsCache[u]]
    /\ UNCHANGED <<stories, audience, follows, feedReq, postReq, acked>>
    /\ UNCHANGED <<followCalls, followResp, purges, lastPurge>>
    /\ UNCHANGED otherThanCache

\* PostStory up to the return of Postgres.CreateStory: the transaction inserts
\* the story and its audience rows; when the visibility fails the CHECK it is
\* rolled back and the handler answers 500, leaving every variable as it was.
PostStory(u, vis, aud) ==
    /\ postReq.pc = "idle"
    /\ Len(stories) < MaxStories
    /\ Len(stories) = 0 => u = FirstUser
    /\ IF vis \in CheckVisibility
       THEN /\ stories' = Append(stories,
                   [author |-> u, vis |-> vis, created |-> now,
                    expires |-> now + StoryLifetime,
                    deleted |-> FALSE, deletedAt |-> 0])
            /\ audience' = audience \cup AudienceRows(Len(stories) + 1, vis, aud)
            /\ postReq' = [pc |-> "committed", user |-> u,
                            id |-> Len(stories) + 1, vis |-> vis, aud |-> aud]
       ELSE UNCHANGED <<stories, audience, postReq>>
    /\ UNCHANGED <<follows, now, advances, feedCache, storyCache, feedReq, acked>>
    /\ UNCHANGED otherThanStore

\* Postgres.CreateStory when tx.Commit fails (the connection is lost, the
\* server aborts the transaction): the INSERT had returned the id and err is
\* nil, so the deferred function calls tx.Commit and discards its error, and
\* the function returns the id with a nil error.  No row is stored; the id
\* is used up.
PostStoryCommitFails(u, vis, aud) ==
    /\ postReq.pc = "idle"
    /\ Len(stories) < MaxStories
    /\ vis \in CheckVisibility
    /\ stories' = Append(stories, RolledBack)
    /\ postReq' = [pc |-> "committed", user |-> u, id |-> Len(stories) + 1,
                    vis |-> vis, aud |-> aud]
    /\ UNCHANGED <<audience, follows, now, advances, feedCache, storyCache,
                   feedReq, acked>>
    /\ UNCHANGED otherThanStore

\* CacheService.CreateStory after the commit: the invalidations, then the
\* handler answers 201 with the id.
PostStoryInvalidate(u) ==
    /\ postReq.pc = "committed"
    /\ postReq.user = u
    /\ feedCache' = DelFeeds(feedCache,
           InvalidatedByCreate(u, postReq.vis, postReq.aud))
    /\ followeesCache' = DelFeeds(followeesCache, {u})
    /\ statsCache' = DelFeeds(statsCache, {u})
    /\ postReq' = IdlePostReq
    /\ acked' = acked \cup {postReq.id}
    /\ UNCHANGED <<storeVars, storyCache, feedReq>>
    /\ UNCHANGED <<followCalls, followResp, purges, lastPurge>>
    /\ UNCHANGED otherThanCache

\* The stories of u whose POST was answered 201 by now.
Acked(u) == {i \in acked : stories[i].author = u}

\* CachedFeed / OptimizedFeed, first step: CacheService.GetCachedFeed reads
\* feed:user:{u}.  A hit is answered at once with the cached list
\* (CacheAnswers), except that OptimizedFeed goes on to the optimized query
\* when the cached list is empty; a miss goes on to the query on the store.
FeedBegin(u, kind) ==
    /\ feedReq.pc = "idle"
    /\ IF Hit(feedCache[u])
       THEN IF kind = "optimized" /\ feedCache[u].val = <<>>
            THEN feedReq' = [pc |-> "optimized", user |-> u, kind |-> kind,
                             rows |-> <<>>, known |-> Acked(u)]
            ELSE UNCHANGED feedReq
       ELSE feedReq' = [pc |-> "miss", user |-> u, kind |-> kind,
                        rows |-> <<>>, known |-> Acked(u)]
    /\ UNCHANGED <<storeVars, feedCache, storyCache, postReq, acked>>
    /\ UNCHANGED otherThanStore

\* CacheService.GetCachedFeed after a miss: the query on the store.
FeedQuery(u, rows) ==
    /\ feedReq.pc = "miss"
    /\ feedReq.user = u
    /\ rows \in Ordered(GetStoriesForUser(u))
    /\ feedReq' = [feedReq EXCEPT !.pc = "fetched", !.rows = rows]
    /\ UNCHANGED <<storeVars, feedCache, storyCache, postReq, acked>>
    /\ UNCHANGED otherThanStore

\* CacheService.GetCachedFeed after the query: the result is stored under
\* feed:user:{u} for FeedCacheDuration and returned to the handler, which
\* answers with it (StoreAnswers) unless it is OptimizedFeed with an empty list.
FeedStore(u) ==
    /\ feedReq.pc = "fetched"
    /\ feedReq.user = u
    /\ feedCache' = [feedCache EXCEPT ![u] =
           Entry(feedReq.rows, FeedCacheDuration)]
    /\ feedReq' = IF feedReq.kind = "optimized" /\ feedReq.rows = <<>>
                  THEN [feedReq EXCEPT !.pc = "optimized"]
                  ELSE IdleFeedReq
    /\ UNCHANGED <<storeVars, storyCache, postReq, acked>>
    /\ UNCHANGED otherThanStore

\* OptimizedFeed when the cached feed was empty: the optimized query, whose
\* rows are the answer; a statement that is rejected returns no row and the
\* handler answers 500.
FeedOptimizedQuery(u, rows) ==
    /\ feedReq.pc = "optimized"
    /\ feedReq.user = u
    /\ IF QueryRejected THEN rows = <<>>
       ELSE rows \in Ordered(GetOptimizedFeedForUser(u))
    /\ feedReq' = IdleFeedReq
    /\ UNCHANGED <<storeVars, feedCache, storyCache, postReq, acked>>
    /\ UNCHANGED otherThanStore

\* The status GetStory answers to viewer v for story i: 404 when
\* CanUserViewStory finds no row, 403 when it returns false, else 200.
GetStoryStatus(v, i) ==
    IF ~Exists(i) THEN 404
    ELSE IF ~CanUserViewStory(i, v) THEN 403
    ELSE 200

\* GetStory: CanUserViewStory, then CacheService.GetCachedStory, which stores
\* the row under story:{i} on a miss.
GetStory(v, i) ==
    /\ storyCache' = IF GetStoryStatus(v, i) = 200 /\ ~Hit(storyCache[i])
                     THEN [storyCache EXCEPT ![i] =
                              Entry(<<i>>, StoryCacheDuration)]
                     ELSE storyCache
    /\ UNCHANGED <<storeVars, feedCache, feedReq, postReq, acked>>
    /\ UNCHANGED otherThanStore

\* a statement that marks every row
EveryRow(rows, t) == DOMAIN rows

\* the rows soft_delete_expired selects: expires_at < t and deleted_at IS NULL
ExpiredRows(rows, t) ==
    {i \in DOMAIN rows : rows[i].expires < t /\ ~rows[i].deleted}

\* the table after UPDATE stories SET deleted_at = t on those rows
SoftDeleted(rows, t) ==
    [i \in DOMAIN rows |->
        IF i \in ExpiredRows(rows, t)
        THEN [rows[i] EXCEPT !.deleted = TRUE, !.deletedAt = t]
        ELSE rows[i]]

\* SoftDeleteExpiredStories, run by the expiration worker: deleted_at = now
\* where expires_at < now and deleted_at IS NULL.
SoftDeleteExpiredStories ==
    /\ ExpiredRows(stories, now) # {}
    /\ stories' = SoftDeleted(stories, now)
    /\ UNCHANGED <<audience, follows, now, advances, cacheVars>>
    /\ UNCHANGED otherThanStore

\* CacheService.FollowUser: the edge is inserted, then InvalidateUserCache
\* deletes the keys of both users.
FollowUser(f, g) ==
    /\ f # g
    /\ <<f, g>> \notin follows
    /\ follows' = follows \cup {<<f, g>>}
    /\ feedCache' = DelFeeds(feedCache, {f, g})
    /\ followeesCache' = DelFeeds(followeesCache, {f, g})
    /\ statsCache' = DelFeeds(statsCache, {f, g})
    /\ UNCHANGED <<stories, audience, now, advances, storyCache, feedReq,
                   postReq, acked>>
    /\ UNCHANGED <<followCalls, followResp, purges, lastPurge>>
    /\ UNCHANGED otherThanCache

StoreNext ==
    \/ \E d \in TimeSteps : Advance(d)
    \/ \E u \in Users, vis \in RequestVisibility :
           \E aud \in SUBSET (Users \ {u}) : PostStory(u, vis, aud)
    \/ \E u \in Users : PostStoryInvalidate(u)
    \/ \E u \in Users, kind \in {"feed", "optimized"} : FeedBegin(u, kind)
    \/ \E u \in Users, rows \in Seq1(StoryIds) : FeedQuery(u, rows)
    \/ \E u \in Users : FeedStore(u)
    \/ \E u \in Users, rows \in Seq1(StoryIds) : FeedOptimizedQuery(u, rows)
    \/ \E v \in Users, i \in StoryIds : GetStory(v, i)
    \/ SoftDeleteExpiredStories
    \/ \E f, g \in Users : FollowUser(f, g)

\* POST /stories with a commit that may fail, among feed reads
CreateNext ==
    \/ \E d \in TimeSteps : Advance(d)
    \/ \E u \in Users, vis \in RequestVisibility :
           \E aud \in SUBSET (Users \ {u}) : PostStory(u, vis, aud)
    \/ \E u \in Users, vis \in RequestVisibility :
           \E aud \in SUBSET (Users \ {u}) : PostStoryCommitFails(u, vis, aud)
    \/ \E u \in Users : PostStoryInvalidate(u)
    \/ \E u \in Users : FeedBegin(u, "feed")
    \/ \E u \in Users, rows \in Seq1(StoryIds) : FeedQuery(u, rows)
    \/ \E u \in Users : FeedStore(u)
    \/ \E f, g \in Users : FollowUser(f, g)

----------------------------------------------------------------------------
(* Token-bucket rate limiter *)

\* concurrent callers of Allow on the bucket
MaxCallers == 2

\* clock ticks per second: the position of a call within its second
TicksPerSec == 2

\* clock advances in one run
MaxTicks == 2

\* calls begun beyond the capacity of the bucket
MaxExtra == 1

\* NewTokenBucket(redisClient, 20, 20), the stories limiter
StoriesCapacity == 20

\* NewTokenBucket(redisClient, 60, 60), the reactions limiter
ReactionsCapacity == 60

\* NewTokenBucket(redisClient, 5, 5), the bucket of TestTokenBucket_Allow
TestCapacity == 5

Capacities == {StoriesCapacity, ReactionsCapacity, TestCapacity}

\* NewTokenBucket(redisClient, 10, 10), the bucket of
\* TestTokenBucket_GetRemaining
RemainingTestCapacity == 10

\* window: time.Minute, passed to the script in seconds
Window == 60

Callers == 1..MaxCallers

\* steps by which the clock advances, in ticks: one tick, the time in which
\* the slowest bucket earns one token, or the life of the key
TickSteps == {1, (Window \div TestCapacity) * TicksPerSec,
              2 * Window * TicksPerSec}

IdleCall == [pc |-> "idle", now |-> 0, t0 |-> 0]

NoBurst == [open |-> FALSE, start |-> 0, calls |-> 0, allowed |-> 0]

NoEpoch == [tokens |-> 0, calls |-> 0, allowed |-> 0, contended |-> FALSE]

\* HMGET on a key that does not exist
NoKey == [present |-> FALSE, tokens |-> 0, last |-> 0, exp |-> 0]

\* no call of GetRemaining has returned
NoRemaining == [value |-> -1, fresh |-> FALSE, due |-> FALSE, full |-> FALSE,
                allowed |-> 0]

\* the log of allowed calls, kept when a run is observed
NoLog == [on |-> FALSE, at |-> <<>>]
EmptyLog == [on |-> TRUE, at |-> <<>>]

LimiterInit ==
    /\ capacity = 0
    /\ bucket = [present |-> FALSE, tokens |-> 0, last |-> 0, exp |-> 0]
    /\ ticks = 0
    /\ tickCount = 0
    /\ call = [p \in Callers |-> IdleCall]
    /\ started = 0
    /\ burst = NoBurst
    /\ epoch = NoEpoch
    /\ ret = [p \in Callers |-> "none"]
    /\ remaining = NoRemaining
    /\ neighbour = NoKey
    /\ cleared = <<>>

RateInit == LimiterInit /\ grants = NoLog

\* a refill without the cap
Uncapped(a, b) == b

Min(a, b) == IF a < b THEN a ELSE b

\* time.Now().Unix()
Unix(t) == t \div TicksPerSec

\* HMGET finds the key: it was written and its EXPIRE has not run out.
Live == bucket.present /\ ticks < bucket.exp

\* a refill that rounds up
TokensRoundedUp(timePassed, refillRate) ==
    (timePassed * refillRate + Window - 1) \div Window

\* math.floor((time_passed / window) * refill_rate).  The script computes in
\* doubles; for the refill rates in Capacities the result equals the integer
\* quotient for every time_passed from 0 to 122, is negative with it for every
\* negative time_passed, and above 122 both exceed every capacity.
TokensToAdd(timePassed, refillRate) == (timePassed * refillRate) \div Window

\* tokens = tokens - 1 without effect
ConsumeNothing(tokens) == tokens

\* tokens = tokens - 1
Consume(tokens) == tokens - 1

\* NewTokenBucket: the limiter under study is built with capacity = refill = c.
NewTokenBucket(c) ==
    /\ capacity = 0
    /\ capacity' = c
    /\ UNCHANGED <<bucket, ticks, tickCount, call, started, burst, epoch, ret, remaining,
                   grants, neighbour, cleared>>
    /\ UNCHANGED otherThanRate

\* TokenBucket.Allow up to the call of Eval: the caller reads the clock.
AllowBegin(p) ==
    /\ capacity # 0
    /\ call[p].pc = "idle"
    /\ started < capacity + MaxExtra
    /\ started' = started + 1
    /\ call' = [call EXCEPT ![p] = [pc |-> "eval", now |-> Unix(ticks), t0 |-> ticks]]
    /\ ret' = [ret EXCEPT ![p] = "none"]
    /\ UNCHANGED <<capacity, bucket, ticks, tickCount, burst, epoch, remaining,
                   grants, neighbour, cleared>>
    /\ UNCHANGED otherThanRate

\* TokenBucket.Allow: redis runs the script, in one step.
AllowEval(p) ==
    /\ call[p].pc = "eval"
    /\ LET tokens0 == IF Live THEN bucket.tokens ELSE capacity
           last0 == IF Live THEN bucket.last ELSE call[p].now
           toAdd == TokensToAdd(call[p].now - last0, capacity)
           tokens1 == IF toAdd > 0 THEN Min(capacity, tokens0 + toAdd) ELSE tokens0
           last1 == IF toAdd > 0 THEN call[p].now ELSE last0
           allowed == tokens1 > 0
           one == IF allowed THEN 1 ELSE 0
           others == \E q \in Callers : q # p /\ call[q].pc = "eval"
       IN /\ bucket' = [present |-> TRUE,
                        tokens |-> IF allowed THEN Consume(tokens1) ELSE tokens1,
                        last |-> last1,
                        exp |-> ticks + 2 * Window * TicksPerSec]
          /\ epoch' = IF ~Live \/ toAdd > 0
                      THEN [tokens |-> tokens1, calls |-> 1, allowed |-> one,
                            contended |-> others]
                      ELSE [tokens |-> epoch.tokens, calls |-> epoch.calls + 1,
                            allowed |-> epoch.allowed + one,
                            contended |-> epoch.contended \/ others]
          /\ burst' = IF ~Live
                      THEN [open |-> TRUE, start |-> call[p].t0, calls |-> 1,
                            allowed |-> one]
                      ELSE IF burst.open /\ ticks - burst.start < TicksPerSec
                      THEN [burst EXCEPT !.calls = @ + 1, !.allowed = @ + one]
                      ELSE [burst EXCEPT !.open = FALSE]
          /\ ret' = [ret EXCEPT ![p] = IF allowed THEN "allowed" ELSE "denied"]
          /\ grants' = IF allowed /\ grants.on
                       THEN [grants EXCEPT !.at = Append(@, call[p].t0)]
                       ELSE grants
    /\ call' = [call EXCEPT ![p] = IdleCall]
    /\ UNCHANGED <<capacity, ticks, tickCount, started, remaining, neighbour,
                   cleared>>
    /\ UNCHANGED otherThanRate

\* The clock advances by d ticks.
Tick(d) ==
    /\ capacity # 0
    /\ tickCount < MaxTicks
    /\ tickCount' = tickCount + 1
    /\ ticks' = ticks + d
    /\ UNCHANGED <<capacity, bucket, call, started, burst, epoch, ret, remaining,
                   grants, neighbour, cleared>>
    /\ UNCHANGED otherThanRate

\* concurrent callers on the bucket of the tests
RateNext ==
    \/ NewTokenBucket(TestCapacity)
    \/ \E p \in Callers : AllowBegin(p)
    \/ \E p \in Callers : AllowEval(p)
    \/ \E d \in TickSteps : Tick(d)

\* The script of Allow on the hash b at second n: what it stores and returns.
luaScript(b, found, n) ==
    LET tokens0 == IF found THEN b.tokens ELSE capacity
        last0 == IF found THEN b.last ELSE n
        toAdd == TokensToAdd(n - last0, capacity)
        tokens1 == IF toAdd > 0 THEN Min(capacity, tokens0 + toAdd) ELSE tokens0
    IN [tokens |-> IF tokens1 > 0 THEN Consume(tokens1) ELSE tokens1,
        last |-> IF toAdd > 0 THEN n ELSE last0,
        allowed |-> tokens1 > 0]

\* TokenBucket.Allow for another user of the same limiter, whose key is
\* rate_limit:{that user}:{action}: the clock is read and the script runs on
\* that key.
AllowNeighbour ==
    /\ capacity # 0
    /\ started < capacity + MaxExtra
    /\ started' = started + 1
    /\ LET r == luaScript(neighbour, neighbour.present /\ ticks < neighbour.exp,
                          Unix(ticks))
       IN neighbour' = [present |-> TRUE, tokens |-> r.tokens, last |-> r.last,
                        exp |-> ticks + 2 * Window * TicksPerSec]
    /\ UNCHANGED <<capacity, bucket, ticks, tickCount, call, burst, epoch, ret,
                   remaining, grants, cleared>>
    /\ UNCHANGED otherThanRate

\* steps of the clock: one tick, the time in which the slowest bucket earns
\* a token, and the life of a key less one tick and in full
BucketSteps == {1, (Window \div TestCapacity) * TicksPerSec,
                2 * Window * TicksPerSec - 1, 2 * Window * TicksPerSec}

\* two users of one limiter, each on their own key
BucketsNext ==
    \/ NewTokenBucket(TestCapacity)
    \/ AllowBegin(1)
    \/ AllowEval(1)
    \/ AllowNeighbour
    \/ \E d \in BucketSteps : Tick(d)

\* steps of the clock that end just before the slowest bucket earns a token
WindowSteps == {1, (Window \div TestCapacity) * TicksPerSec - 1,
                2 * Window * TicksPerSec}

\* The clock advances while calls may be in flight; a call is answered or
\* given up by the client long before the life of a key has passed.
WindowTick(d) ==
    /\ d = 2 * Window * TicksPerSec => \A p \in Callers : call[p].pc = "idle"
    /\ Tick(d)

\* concurrent callers on the bucket of the tests, every allowed call logged
WindowNext ==
    \/ NewTokenBucket(TestCapacity)
    \/ \E p \in Callers : AllowBegin(p)
    \/ \E p \in Callers : AllowEval(p)
    \/ \E d \in WindowSteps : WindowTick(d)

\* successive calls of one caller on each of the buckets
BurstNext ==
    \/ \E c \in Capacities : NewTokenBucket(c)
    \/ AllowBegin(1)
    \/ AllowEval(1)
    \/ \E d \in TickSteps : Tick(d)

----------------------------------------------------------------------------
(* The rate limit middleware *)

NoResp == [verdict |-> "none", status |-> 0, limit |-> 0, remaining |-> 0,
           reset |-> 0, next |-> FALSE, since |-> 0]

\* the key of the bucket had expired
Expired == -1

LimitInit == mwResp = NoResp

\* the action whose limiter NewRateLimitConfig built with capacity c
ActionOf(c) ==
    IF c = StoriesCapacity THEN "stories"
    ELSE IF c = ReactionsCapacity THEN "reactions"
    ELSE "other"

\* getLimitForAction
getLimitForAction(action) ==
    IF action = "stories" THEN 20
    ELSE IF action = "reactions" THEN 60
    ELSE 100

\* a script that reports a full bucket whatever the key holds
AlwaysFull(n) == capacity

\* The script of TokenBucket.GetRemaining at second n: the tokens after the
\* refill that is due, without writing the key.
GetRemaining(n) ==
    LET tokens0 == IF Live THEN bucket.tokens ELSE capacity
        last0 == IF Live THEN bucket.last ELSE n
        toAdd == TokensToAdd(n - last0, capacity)
    IN IF toAdd > 0 THEN Min(capacity, tokens0 + toAdd) ELSE tokens0

\* a middleware that hands every request to the wrapped handler
InvokesAlways(verdict) == TRUE

\* RateLimitMiddleware: `if !allowed { ... return }` ahead of next.ServeHTTP
InvokesNext(verdict) == verdict = "allowed"

\* RateLimitMiddleware up to limiter.Allow: a request of caller p arrives
\* after the previous one was answered.
MiddlewareBegin(p) ==
    /\ ret[p] = "none"
    /\ AllowBegin(p)

\* limiter.Allow returns an error (redis is unreachable, the script did not
\* run): the middleware answers 500 and returns.
LimiterFails(p) ==
    /\ call[p].pc = "eval"
    /\ call' = [call EXCEPT ![p] = IdleCall]
    /\ mwResp' = [NoResp EXCEPT !.verdict = "failed", !.status = 500]
    /\ UNCHANGED <<capacity, bucket, ticks, tickCount, started, burst, epoch, ret, remaining,
                   grants, neighbour, cleared>>
    /\ UNCHANGED otherThanLimit

\* RateLimitMiddleware after limiter.Allow returned: limiter.GetRemaining
\* reads the clock and runs its script (its error is discarded and leaves
\* remaining = 0), the headers are set, and the request is answered 429 or
\* handed to the wrapped handler.
MiddlewareRespond(p, remainingFails) ==
    /\ ret[p] # "none"
    /\ call[p].pc = "idle"
    /\ mwResp' = [verdict |-> ret[p],
                  status |-> IF ret[p] = "denied" THEN 429 ELSE 200,
                  limit |-> getLimitForAction(ActionOf(capacity)),
                  remaining |-> IF remainingFails THEN 0
                                ELSE GetRemaining(Unix(ticks)),
                  reset |-> Window,
                  next |-> InvokesNext(ret[p]),
                  since |-> IF Live THEN Unix(ticks) - bucket.last
                            ELSE Expired]
    /\ ret' = [ret EXCEPT ![p] = "none"]
    /\ UNCHANGED <<capacity, bucket, ticks, tickCount, call, started, burst, epoch, remaining,
                   grants, neighbour, cleared>>
    /\ UNCHANGED otherThanLimit

\* the requests of one user on POST /stories
LimitNext ==
    \/ NewTokenBucket(StoriesCapacity)
    \/ MiddlewareBegin(1)
    \/ AllowEval(1)
    \/ LimiterFails(1)
    \/ \E remainingFails \in BOOLEAN : MiddlewareRespond(1, remainingFails)
    \/ \E d \in TickSteps : Tick(d)

\* TokenBucket.GetRemaining: the caller reads the clock and redis runs the
\* script, which writes nothing.  Beside the value returned, the record keeps
\* what the key held when the script ran: whether it was absent (fresh),
\* whether a refill was due, whether the bucket was full when the tokens
\* were last refilled or the key created, and the calls allowed since then.
CallGetRemaining ==
    /\ capacity # 0
    /\ \A p \in Callers : call[p].pc = "idle"
    /\ LET n == Unix(ticks)
           value == GetRemaining(n)
       IN remaining' = [value |-> value,
                        fresh |-> ~Live,
                        due |-> Live /\ TokensToAdd(n - bucket.last, capacity) > 0,
                        full |-> Live /\ epoch.tokens = capacity,
                        allowed |-> IF Live THEN epoch.allowed ELSE 0]
    /\ UNCHANGED <<capacity, bucket, ticks, tickCount, call, started, burst, epoch,
                   ret, grants, neighbour, cleared>>
    /\ UNCHANGED otherThanRate

\* TokenBucket.Reset: DEL of the key.
Reset ==
    /\ capacity # 0
    /\ bucket.present
    /\ \A p \in Callers : call[p].pc = "idle"
    /\ bucket' = [present |-> FALSE, tokens |-> 0, last |-> 0, exp |-> 0]
    /\ UNCHANGED <<capacity, ticks, tickCount, call, started, burst, epoch, ret,
                   remaining,
                   grants, neighbour, cleared>>
    /\ UNCHANGED otherThanRate

\* one caller on the buckets of the tests: calls of Allow, GetRemaining and
\* Reset as time passes
RemainingNext ==
    \/ \E c \in {TestCapacity, RemainingTestCapacity} : NewTokenBucket(c)
    \/ AllowBegin(1)
    \/ AllowEval(1)
    \/ CallGetRemaining
    \/ Reset
    \/ \E d \in TickSteps : Tick(d)

----------------------------------------------------------------------------
(* Views, reactions and the event publisher *)

MaxReactors == 2    \* reaction requests in flight at once
MaxReacts == 2      \* reaction requests in total
MaxViews == 2       \* view requests in total
MaxPublished == 2   \* direct calls of the publisher that reach the hub or the self guard

Reactors == 1..MaxReactors

\* types.ReactionThumbsUp, ReactionHeart, ReactionLaugh, ReactionSurprised,
\* ReactionSad, ReactionFire: the six cases of isValidReactionEmoji
ValidEmojis == {"thumbs_up", "heart", "laugh", "surprised", "sad", "fire"}

\* the emoji of a request body: two of the six and one outside them
RequestEmojis == {"thumbs_up", "heart", "poop"}

NoEmoji == "none"

EventStoryViewed == "story.viewed"
EventStoryReacted == "story.reacted"

\* CreateTables: story_views has the columns id SERIAL PRIMARY KEY, story_id,
\* viewer_id, viewed_at and no unique index on (story_id, viewer_id).
StoryViewsUnique == FALSE

IdleReactReq == [pc |-> "idle", story |-> 0, user |-> NoUser, emoji |-> NoEmoji]

NoReact == [emoji |-> NoEmoji, event |-> NoEmoji, online |-> FALSE,
            overlapped |-> FALSE]

ReactInit ==
    /\ views = <<>>
    /\ reactions = EmptyBag
    /\ reactReq = [p \in Reactors |-> IdleReactReq]
    /\ reactCalls = 0
    /\ viewCalls = 0
    /\ published = <<>>
    /\ selfCalls = 0
    /\ viewLog = {}
    /\ lastReact = [k \in StoryIds \X Users |-> NoReact]
    /\ rejected = {}

\* Hub.IsUserConnected
IsUserConnected(u) == clients[u] # NoClient

\* a validation that accepts every emoji
AnyEmojiValid(e) == TRUE

\* isValidReactionEmoji
isValidReactionEmoji(e) == e \in ValidEmojis

\* a guard that never suppresses
NeverSelf(actor, author) == FALSE

\* the guard `viewerID == authorID` / `userID == authorID` of the publisher
IsSelf(actor, author) == actor = author

\* EventPublisher.PublishStoryViewed: the events handed to BroadcastToUser
PublishStoryViewed(i, viewer, author) ==
    IF IsSelf(viewer, author) THEN <<>>
    ELSE IF ~IsUserConnected(author) THEN <<>>
    ELSE <<[type |-> EventStoryViewed, story |-> i, actor |-> viewer,
            to |-> author, emoji |-> NoEmoji]>>

\* EventPublisher.PublishStoryReacted: the events handed to BroadcastToUser
PublishStoryReacted(i, user, author, e) ==
    IF IsSelf(user, author) THEN <<>>
    ELSE IF ~IsUserConnected(author) THEN <<>>
    ELSE <<[type |-> EventStoryReacted, story |-> i, actor |-> user,
            to |-> author, emoji |-> e]>>

\* the rows of a table for story i and user u
ViewRows(i, u) == SelectSeq(views, LAMBDA r : r.story = i /\ r.user = u)
ReactionRows(i, u) ==
    [r \in {x \in DOMAIN reactions : x.story = i /\ x.user = u} |-> reactions[r]]

\* the events of a type published for story i and actor u
EventsOf(type, i, u) ==
    SelectSeq(published, LAMBDA ev : ev.type = type /\ ev.story = i /\ ev.actor = u)

\* Postgres.RecordStoryView: INSERT ... ON CONFLICT (story_id, viewer_id) DO
\* NOTHING.  The statement needs a unique index on the conflict target; without
\* one it is rejected and no row is written.
RecordStoryView(i, v) ==
    IF ~StoryViewsUnique THEN [err |-> TRUE, rows |-> views]
    ELSE IF Len(ViewRows(i, v)) > 0 THEN [err |-> FALSE, rows |-> views]
    ELSE [err |-> FALSE, rows |-> Append(views, [story |-> i, user |-> v])]

\* a DELETE that removes nothing
DeleteNothing(rows, i, u) == rows

\* Postgres.AddReaction, first statement: DELETE FROM reactions WHERE
\* story_id = i AND user_id = u
DeletePrior(rows, i, u) ==
    [r \in {x \in DOMAIN rows : ~(x.story = i /\ x.user = u)} |-> rows[r]]

\* CacheService.GetStoryByID -> GetCachedStory: a miss on story:{i} reads the
\* row and stores it under the key.
GetCachedStory(i) ==
    IF Exists(i) /\ ~Hit(storyCache[i])
    THEN [storyCache EXCEPT ![i] = Entry(<<i>>, StoryCacheDuration)]
    ELSE storyCache

\* POST /stories/{id}/view: GetStoryByID (404), RecordStoryView (500), 200;
\* with withEvents the story.viewed event is published after the write
\* succeeded.
ViewRequest(v, i, withEvents) ==
    /\ viewCalls < MaxViews
    /\ viewCalls' = viewCalls + 1
    /\ storyCache' = GetCachedStory(i)
    /\ IF ~Exists(i)
       THEN UNCHANGED <<views, published, selfCalls, viewLog>>
       ELSE LET author == stories[i].author
                rec == RecordStoryView(i, v)
            IN /\ views' = rec.rows
               /\ published' = IF rec.err \/ ~withEvents THEN published
                               ELSE published \o PublishStoryViewed(i, v, author)
               /\ selfCalls' = IF ~rec.err /\ withEvents /\ v = author
                                  /\ IsUserConnected(author)
                               THEN selfCalls + 1 ELSE selfCalls
               /\ viewLog' = viewLog \cup
                      {[story |-> i, viewer |-> v,
                        status |-> IF rec.err THEN 500 ELSE 200,
                        online |-> IsUserConnected(author),
                        first |-> \A r \in viewLog :
                                      r.story # i \/ r.viewer # v]}
    /\ UNCHANGED <<reactions, reactReq, reactCalls, lastReact, rejected>>
    /\ UNCHANGED <<storeVars, feedCache, feedReq, postReq, acked>>
    /\ UNCHANGED <<hubVars, rateVars, pumpVars, limitVars, keyVars, metaVars,
                   authVars, outsideVars, workerVars>>

\* handler ViewStory
ViewStory(v, i) == ViewRequest(v, i, FALSE)

\* handler ViewStoryWithEvents of the route POST /stories/{id}/view
ViewStoryWithEvents(v, i) == ViewRequest(v, i, TRUE)

\* POST /stories/{id}/reactions, handler AddReaction up to the first statement
\* of Postgres.AddReaction: the body is validated (400), GetStoryByID (404),
\* then DELETE FROM reactions WHERE story_id = i AND user_id = u.  A request
\* takes the first free slot of reactReq.
ReactDelete(p, u, i, e) ==
    /\ reactReq[p].pc = "idle"
    /\ \A q \in Reactors : q < p => reactReq[q].pc # "idle"
    /\ reactCalls < MaxReacts
    /\ reactCalls' = reactCalls + 1
    /\ IF ~isValidReactionEmoji(e)
       THEN /\ rejected' = rejected \cup {e}
            /\ UNCHANGED <<reactions, reactReq, lastReact, storyCache>>
       ELSE /\ storyCache' = GetCachedStory(i)
            /\ IF ~Exists(i)
               THEN UNCHANGED <<reactions, reactReq, lastReact, rejected>>
               ELSE /\ reactions' = DeletePrior(reactions, i, u)
                    /\ reactReq' = [reactReq EXCEPT ![p] =
                           [pc |-> "deleted", story |-> i, user |-> u,
                            emoji |-> e]]
                    /\ lastReact' = [lastReact EXCEPT ![<<i, u>>].overlapped =
                           @ \/ \E q \in Reactors :
                                    /\ reactReq[q].pc # "idle"
                                    /\ reactReq[q].story = i
                                    /\ reactReq[q].user = u]
                    /\ UNCHANGED rejected
    /\ UNCHANGED <<views, viewCalls, published, selfCalls, viewLog>>
    /\ UNCHANGED <<storeVars, feedCache, feedReq, postReq, acked>>
    /\ UNCHANGED <<hubVars, rateVars, pumpVars, limitVars, keyVars, metaVars,
                   authVars, outsideVars, workerVars>>

\* The second statement of Postgres.AddReaction: INSERT INTO reactions.
ReactInsert(p) ==
    /\ reactReq[p].pc = "deleted"
    /\ reactions' = reactions (+)
           SetToBag({[story |-> reactReq[p].story, user |-> reactReq[p].user,
                      type |-> reactReq[p].emoji]})
    /\ reactReq' = [reactReq EXCEPT ![p].pc = "inserted"]
    /\ UNCHANGED <<views, reactCalls, viewCalls, published, selfCalls, viewLog,
                   lastReact, rejected>>
    /\ UNCHANGED otherThanReact

\* The second statement of Postgres.AddReaction fails (the connection is
\* lost, the statement is cancelled): the error is returned, the handler
\* answers 500 and publishes nothing.  The DELETE ran outside a transaction
\* and stays.
ReactInsertFails(p) ==
    /\ reactReq[p].pc = "deleted"
    /\ reactReq' = [reactReq EXCEPT ![p] = IdleReactReq]
    /\ UNCHANGED <<views, reactions, reactCalls, viewCalls, published, selfCalls,
                   viewLog, lastReact, rejected>>
    /\ UNCHANGED otherThanReact

\* After Postgres.AddReaction returned without error: the story.reacted event
\* is published and the request is answered 200.
ReactPublish(p) ==
    /\ reactReq[p].pc = "inserted"
    /\ LET i == reactReq[p].story
           u == reactReq[p].user
           e == reactReq[p].emoji
           author == stories[i].author
           evs == PublishStoryReacted(i, u, author, e)
       IN /\ published' = published \o evs
          /\ selfCalls' = IF u = author /\ IsUserConnected(author)
                          THEN selfCalls + 1 ELSE selfCalls
          /\ lastReact' = [lastReact EXCEPT ![<<i, u>>] =
                 [emoji |-> e,
                  event |-> IF evs = <<>> THEN NoEmoji ELSE e,
                  online |-> IsUserConnected(author),
                  overlapped |-> @.overlapped]]
    /\ reactReq' = [reactReq EXCEPT ![p] = IdleReactReq]
    /\ UNCHANGED <<views, reactions, reactCalls, viewCalls, viewLog, rejected>>
    /\ UNCHANGED otherThanReact

\* A call of EventPublisher.PublishStoryViewed with arbitrary arguments.
CallPublishStoryViewed(i, viewer, author) ==
    /\ Len(published) + selfCalls < MaxPublished
    /\ published' = published \o PublishStoryViewed(i, viewer, author)
    /\ selfCalls' = IF viewer = author /\ IsUserConnected(author)
                    THEN selfCalls + 1 ELSE selfCalls
    /\ UNCHANGED <<views, reactions, reactReq, reactCalls, viewCalls, viewLog,
                   lastReact, rejected>>
    /\ UNCHANGED otherThanReact

\* A call of EventPublisher.PublishStoryReacted with arbitrary arguments.
CallPublishStoryReacted(i, user, author, e) ==
    /\ Len(published) + selfCalls < MaxPublished
    /\ published' = published \o PublishStoryReacted(i, user, author, e)
    /\ selfCalls' = IF user = author /\ IsUserConnected(author)
                    THEN selfCalls + 1 ELSE selfCalls
    /\ UNCHANGED <<views, reactions, reactReq, reactCalls, viewCalls, viewLog,
                   lastReact, rejected>>
    /\ UNCHANGED otherThanReact

\* the publisher called directly, with users connecting to the hub
PublishNext ==
    \/ \E c \in ClientIds, u \in Users : WebSocketHandler(c, u)
    \/ \E c \in ClientIds : RecvRegister(c)
    \/ RunRegister
    \/ \E i \in StoryIds, v \in Users, a \in Users :
           CallPublishStoryViewed(i, v, a)
    \/ \E i \in StoryIds, u \in Users, a \in Users, e \in ValidEmojis :
           CallPublishStoryReacted(i, u, a, e)

\* the handler of reactions, with stories being created and the first author
\* connecting to the hub and leaving it
ReactNext ==
    \/ WebSocketHandler(1, FirstUser)
    \/ RecvRegister(1)
    \/ RunRegister
    \/ ReadFail(1)
    \/ RecvUnregisterReader(1)
    \/ RunUnregister
    \/ \E u \in Users : PostStory(u, "PUBLIC", {})
    \/ \E u \in Users : PostStoryInvalidate(u)
    \/ \E p \in Reactors, u \in Users, i \in StoryIds, e \in RequestEmojis :
           ReactDelete(p, u, i, e)
    \/ \E p \in Reactors : ReactInsert(p)
    \/ \E p \in Reactors : ReactPublish(p)

\* the reaction handler with a store whose INSERT may fail
ReactErrNext ==
    \/ ReactNext
    \/ \E p \in Reactors : ReactInsertFails(p)

\* views and reactions on the stories of a connected author while time passes
\* and the expiration worker's statement runs
LifecycleNext ==
    \/ WebSocketHandler(1, FirstUser)
    \/ RecvRegister(1)
    \/ RunRegister
    \/ PostStory(FirstUser, "PUBLIC", {})
    \/ PostStoryInvalidate(FirstUser)
    \/ \E d \in TimeSteps : Advance(d)
    \/ SoftDeleteExpiredStories
    \/ \E v \in Users \ {FirstUser}, i \in StoryIds : ViewStoryWithEvents(v, i)
    \/ \E p \in Reactors, u \in Users \ {FirstUser}, i \in StoryIds :
           ReactDelete(p, u, i, "heart")
    \/ \E p \in Reactors : ReactInsert(p)
    \/ \E p \in Reactors : ReactPublish(p)

\* the handlers of views, with stories being created and the first author
\* connecting to the hub and leaving it
ViewNext ==
    \/ WebSocketHandler(1, FirstUser)
    \/ RecvRegister(1)
    \/ RunRegister
    \/ ReadFail(1)
    \/ RecvUnregisterReader(1)
    \/ RunUnregister
    \/ \E u \in Users, vis \in {"PUBLIC", "PRIVATE"} : PostStory(u, vis, {})
    \/ \E u \in Users : PostStoryInvalidate(u)
    \/ \E v \in Users, i \in StoryIds : ViewStory(v, i)
    \/ \E v \in Users, i \in StoryIds : ViewStoryWithEvents(v, i)

----------------------------------------------------------------------------
(* The keys of the cache layer: followees, stats, follow and unfollow *)

MaxFollows == 2     \* follow and unfollow requests in one run
MaxPurges == 1      \* deletions of keys from outside the service in one run

\* the redis keys, as family and id
AllKeys ==
    ({"feed", "followees", "stats"} \X Users) \cup ({"story"} \X StoryIds)

\* the entry of key k
KeyEntry(k) ==
    CASE k[1] = "feed" -> feedCache[k[2]]
      [] k[1] = "followees" -> followeesCache[k[2]]
      [] k[1] = "stats" -> statsCache[k[2]]
      [] OTHER -> storyCache[k[2]]

\* a query that finds no followee
NoFollowees(u) == {}

\* Storage.GetUserFollowees: the users u follows
StoreFollowees(u) == {g \in Users : <<u, g>> \in follows}

\* Storage.GetUserStats: the stories u posted, the views of them, their
\* distinct viewers and the reactions to them by emoji
GetUserStats(u) ==
    LET mine == {i \in 1..Len(stories) : Exists(i) /\ stories[i].author = u}
        vs == SelectSeq(views, LAMBDA r : r.story \in mine)
    IN [posted |-> Cardinality(mine),
        views |-> Len(vs),
        unique |-> Cardinality({vs[k].user : k \in 1..Len(vs)}),
        reactions |-> [e \in ValidEmojis |->
            BagCardinality([r \in {x \in DOMAIN reactions :
                                       x.story \in mine /\ x.type = e}
                             |-> reactions[r]])]]

\* CacheService.GetUserFollowees: GET user:followees:{u}; on a miss the query
\* on the store, whose result is stored under the key and returned.
GetUserFollowees(u) ==
    /\ ~Hit(followeesCache[u])
    /\ followeesCache' = [followeesCache EXCEPT ![u] =
           Entry(StoreFollowees(u), FolloweesCacheDuration)]
    /\ UNCHANGED <<statsCache, followCalls, followResp, purges, lastPurge>>
    /\ UNCHANGED <<storeVars, cacheVars>>
    /\ UNCHANGED otherThanCache

\* CacheService.GetCachedUserStats: GET user:stats:{u}; on a miss the query on
\* the store, whose result is stored under the key and returned.
GetCachedUserStats(u) ==
    /\ ~Hit(statsCache[u])
    /\ statsCache' = [statsCache EXCEPT ![u] =
           Entry(GetUserStats(u), StatsCacheDuration)]
    /\ UNCHANGED <<followeesCache, followCalls, followResp, purges, lastPurge>>
    /\ UNCHANGED <<storeVars, cacheVars>>
    /\ UNCHANGED otherThanCache

\* CacheService.GetStoryByID outside a handler: GetCachedStory.
GetStoryByID(i) ==
    /\ Exists(i)
    /\ ~Hit(storyCache[i])
    /\ storyCache' = GetCachedStory(i)
    /\ UNCHANGED <<storeVars, feedCache, feedReq, postReq, acked>>
    /\ UNCHANGED otherThanStore

\* the keys InvalidateUserCache deletes for the two users
InvalidatedByFollow(f, g) == {"feed", "followees", "stats"} \X {f, g}

\* CacheService.FollowUser / UnfollowUser after the store call returned nil:
\* InvalidateUserCache of both users, and the handler answers 200.
FollowInvalidate(op, f, g) ==
    /\ feedCache' = DelFeeds(feedCache, {f, g})
    /\ followeesCache' = DelFeeds(followeesCache, {f, g})
    /\ statsCache' = DelFeeds(statsCache, {f, g})
    /\ followResp' = [op |-> op, status |-> 200, f |-> f, g |-> g,
                      had |-> {k \in InvalidatedByFollow(f, g) :
                                  KeyEntry(k).present}]

\* handler FollowUser of POST /follow/{user_id}: storage.FollowUser inserts
\* the edge; when it returns an error (the store is unreachable, or it
\* rejects the edge) the handler answers 500 and no key is deleted.
FollowRequest(f, g, storeFails) ==
    /\ followCalls < MaxFollows
    /\ followCalls' = followCalls + 1
    /\ IF storeFails
       THEN /\ followResp' = [op |-> "follow", status |-> 500, f |-> f, g |-> g,
                              had |-> {}]
            /\ UNCHANGED <<follows, feedCache, followeesCache, statsCache>>
       ELSE /\ follows' = follows \cup {<<f, g>>}
            /\ FollowInvalidate("follow", f, g)
    /\ UNCHANGED <<stories, audience, now, advances, storyCache, feedReq,
                   postReq, acked, purges, lastPurge>>
    /\ UNCHANGED otherThanCache

\* handler UnfollowUser of DELETE /follow/{user_id}: storage.UnfollowUser
\* deletes the edge; "follow relationship not found" is answered 404, another
\* error 500, and no key is deleted.
UnfollowRequest(f, g, storeFails) ==
    /\ followCalls < MaxFollows
    /\ followCalls' = followCalls + 1
    /\ IF storeFails \/ <<f, g>> \notin follows
       THEN /\ followResp' = [op |-> "unfollow",
                              status |-> IF storeFails THEN 500 ELSE 404,
                              f |-> f, g |-> g,
                              had |-> {}]
            /\ UNCHANGED <<follows, feedCache, followeesCache, statsCache>>
       ELSE /\ follows' = follows \ {<<f, g>>}
            /\ FollowInvalidate("unfollow", f, g)
    /\ UNCHANGED <<stories, audience, now, advances, storyCache, feedReq,
                   postReq, acked, purges, lastPurge>>
    /\ UNCHANGED otherThanCache

\* Keys are deleted from outside the service (DEL, FLUSHDB, eviction): the
\* keys K, all present, disappear and nothing else changes.
Purge(K) ==
    /\ purges < MaxPurges
    /\ K # {}
    /\ \A k \in K : KeyEntry(k).present
    /\ purges' = purges + 1
    /\ lastPurge' = K
    /\ feedCache' = DelFeeds(feedCache, {u \in Users : <<"feed", u>> \in K})
    /\ followeesCache' =
           DelFeeds(followeesCache, {u \in Users : <<"followees", u>> \in K})
    /\ statsCache' = DelFeeds(statsCache, {u \in Users : <<"stats", u>> \in K})
    /\ storyCache' = [i \in StoryIds |->
           IF <<"story", i>> \in K THEN NoEntry ELSE storyCache[i]]
    /\ UNCHANGED <<storeVars, feedReq, postReq, acked, followCalls, followResp>>
    /\ UNCHANGED otherThanCache

\* follow and unfollow requests among the reads that fill the keys
FollowNext ==
    \/ \E u \in Users : GetUserFollowees(u)
    \/ \E u \in Users : GetCachedUserStats(u)
    \/ \E u \in Users : FeedBegin(u, "feed")
    \/ \E u \in Users, rows \in Seq1(StoryIds) : FeedQuery(u, rows)
    \/ \E u \in Users : FeedStore(u)
    \/ \E f, g \in Users, storeFails \in BOOLEAN : FollowRequest(f, g, storeFails)
    \/ \E f, g \in Users, storeFails \in BOOLEAN : UnfollowRequest(f, g, storeFails)

\* the first user's reads of the four key families, writes to the store, and
\* deletions of keys from outside
PurgeNext ==
    \/ PostStory(FirstUser, "PUBLIC", {})
    \/ PostStoryInvalidate(FirstUser)
    \/ \E g \in Users : FollowUser(FirstUser, g)
    \/ GetUserFollowees(FirstUser)
    \/ GetCachedUserStats(FirstUser)
    \/ \E i \in StoryIds : GetStoryByID(i)
    \/ FeedBegin(FirstUser, "feed")
    \/ \E rows \in Seq1(StoryIds) : FeedQuery(FirstUser, rows)
    \/ FeedStore(FirstUser)
    \/ \E K \in SUBSET AllKeys : Purge(K)

----------------------------------------------------------------------------
(* Values written to redis from outside the service *)

OutsideInit == corrupted = {}

\* the entry with bytes that are not the JSON of a value; its expiry stays
Garbled(entry) == [entry EXCEPT !.valid = FALSE]

\* The value of key k, present and intact, is overwritten from outside (another
\* writer, a truncated write) with bytes json.Unmarshal refuses.
Corrupt(k) ==
    /\ KeyEntry(k).present
    /\ KeyEntry(k).valid
    /\ corrupted' = corrupted \cup {k}
    /\ feedCache' = [u \in Users |->
           IF k = <<"feed", u>> THEN Garbled(feedCache[u]) ELSE feedCache[u]]
    /\ followeesCache' = [u \in Users |->
           IF k = <<"followees", u>> THEN Garbled(followeesCache[u])
           ELSE followeesCache[u]]
    /\ statsCache' = [u \in Users |->
           IF k = <<"stats", u>> THEN Garbled(statsCache[u]) ELSE statsCache[u]]
    /\ storyCache' = [i \in StoryIds |->
           IF k = <<"story", i>> THEN Garbled(storyCache[i]) ELSE storyCache[i]]
    /\ UNCHANGED <<storeVars, feedReq, postReq, acked, followCalls, followResp,
                   purges, lastPurge>>
    /\ UNCHANGED <<hubVars, rateVars, reactVars, pumpVars, limitVars, metaVars,
                   authVars, workerVars>>

\* the first user's reads of the four key families and writes to the store,
\* with values being overwritten from outside
CorruptNext ==
    \/ PostStory(FirstUser, "PUBLIC", {})
    \/ PostStoryInvalidate(FirstUser)
    \/ \E g \in Users : FollowUser(FirstUser, g)
    \/ GetUserFollowees(FirstUser)
    \/ GetCachedUserStats(FirstUser)
    \/ \E i \in StoryIds : GetStoryByID(i)
    \/ FeedBegin(FirstUser, "feed")
    \/ \E rows \in Seq1(StoryIds) : FeedQuery(FirstUser, rows)
    \/ FeedStore(FirstUser)
    \/ \E k \in AllKeys : Corrupt(k)

----------------------------------------------------------------------------
(* DELETE /cache/clear *)

MaxClears == 2      \* requests to DELETE /cache/clear in one run

\* values of the query parameter type, "" being a request without it
ClearTypes == {"feed", "followees", "stats", "stories", "all", ""}

\* the families of keys in redis
KeyFamilies == {"feed", "followees", "stats", "story", "rate_limit"}

\* the part of a key ahead of its ids, split at the colons: FeedCacheKey,
\* UserFolloweesKey, UserStatsKey, StoryKey and the key of TokenBucket.Allow
KeyPrefix(family) ==
    CASE family = "feed" -> <<"feed", "user">>
      [] family = "followees" -> <<"user", "followees">>
      [] family = "stats" -> <<"user", "stats">>
      [] family = "story" -> <<"story">>
      [] OTHER -> <<"rate_limit">>

\* the switch of ClearCache: the pattern handed to KEYS, as the segments
\* ahead of its final *
Pattern(cacheType) ==
    CASE cacheType = "feed" -> <<"feed">>
      [] cacheType = "followees" -> <<"user", "followees">>
      [] cacheType = "stats" -> <<"user", "stats">>
      [] cacheType = "stories" -> <<"story">>
      [] cacheType = "all" -> <<>>
      [] OTHER -> <<"feed">>

\* KEYS pattern returns the keys of the family
Matches(pattern, family) ==
    /\ Len(pattern) <= Len(KeyPrefix(family))
    /\ SubSeq(KeyPrefix(family), 1, Len(pattern)) = pattern

\* handler ClearCache: KEYS with the pattern of the type, then DEL of the keys
\* found.  The client is the one NewRateLimitConfig and NewCacheService were
\* given.
ClearCache(cacheType) ==
    /\ Len(cleared) < MaxClears
    /\ LET pattern == Pattern(cacheType)
       IN /\ cleared' = Append(cleared, pattern)
          /\ feedCache' = IF Matches(pattern, "feed")
                          THEN [u \in Users |-> NoEntry] ELSE feedCache
          /\ followeesCache' = IF Matches(pattern, "followees")
                               THEN [u \in Users |-> NoEntry]
                               ELSE followeesCache
          /\ statsCache' = IF Matches(pattern, "stats")
                           THEN [u \in Users |-> NoEntry] ELSE statsCache
          /\ storyCache' = IF Matches(pattern, "story")
                           THEN [i \in StoryIds |-> NoEntry] ELSE storyCache
          /\ bucket' = IF Matches(pattern, "rate_limit") /\ Live
                       THEN NoKey ELSE bucket
          /\ neighbour' = IF Matches(pattern, "rate_limit") /\ neighbour.present
                                /\ ticks < neighbour.exp
                          THEN NoKey ELSE neighbour
    /\ UNCHANGED <<capacity, ticks, tickCount, call, started, burst, epoch, ret,
                   remaining, grants>>
    /\ UNCHANGED <<storeVars, feedReq, postReq, acked, followCalls, followResp,
                   purges, lastPurge>>
    /\ UNCHANGED <<hubVars, reactVars, pumpVars, limitVars, metaVars, authVars,
                   outsideVars, workerVars>>

\* one user's calls on the test limiter and reads of a story while the
\* caches are cleared
ClearNext ==
    \/ NewTokenBucket(TestCapacity)
    \/ AllowBegin(1)
    \/ AllowEval(1)
    \/ AllowNeighbour
    \/ Tick(1)
    \/ PostStory(FirstUser, "PUBLIC", {})
    \/ \E i \in StoryIds : GetStoryByID(i)
    \/ \E cacheType \in ClearTypes : ClearCache(cacheType)

----------------------------------------------------------------------------
(* GET /feed/optimized *)

\* no GET /feed/optimized was answered
NoMetaResp == [status |-> 0, viewer |-> NoUser, rows |-> <<>>]

MetaInit == metaResp = NoMetaResp

\* types.Story in the response: the row of story i without the fields
\* view_count, reaction_count, user_has_viewed and user_reaction
PlainStory(i) ==
    [id |-> i, meta |-> FALSE, view_count |-> 0, reaction_count |-> 0,
     user_has_viewed |-> FALSE, user_reaction |-> NoEmoji]

\* handler OptimizedFeed as one step.  CacheService.GetCachedFeed returns the
\* cached list or reads the plain feed from the store and caches it; a list
\* that is not empty is the answer, as types.Story values.  Otherwise
\* GetOptimizedFeedForUser runs its statement, which PostgreSQL rejects, and
\* the handler answers 500.
OptimizedFeed(v, fetched) ==
    /\ fetched \in Ordered(GetStoriesForUser(v))
    /\ LET cached == IF Hit(feedCache[v]) THEN feedCache[v].val ELSE fetched
       IN /\ feedCache' = IF Hit(feedCache[v]) THEN feedCache
                          ELSE [feedCache EXCEPT ![v] =
                                   Entry(fetched, FeedCacheDuration)]
          /\ metaResp' =
                 IF cached # <<>>
                 THEN [status |-> 200, viewer |-> v,
                       rows |-> [k \in 1..Len(cached) |-> PlainStory(cached[k])]]
                 ELSE [status |-> IF QueryRejected THEN 500 ELSE 200,
                       viewer |-> v, rows |-> <<>>]
    /\ UNCHANGED <<storeVars, storyCache, feedReq, postReq, acked>>
    /\ UNCHANGED <<hubVars, rateVars, reactVars, pumpVars, limitVars, keyVars,
                   authVars, outsideVars, workerVars>>

\* GET /feed/optimized among stories being posted and reacted to
MetaNext ==
    \/ \E u \in Users : PostStory(u, "PUBLIC", {})
    \/ \E u \in Users : PostStoryInvalidate(u)
    \/ \E p \in Reactors, u \in Users, i \in StoryIds, e \in RequestEmojis :
           ReactDelete(p, u, i, e)
    \/ \E p \in Reactors : ReactInsert(p)
    \/ \E p \in Reactors : ReactPublish(p)
    \/ \E v \in Users, fetched \in Seq1(StoryIds) : OptimizedFeed(v, fetched)

----------------------------------------------------------------------------
(* Authentication: AuthMiddleware before the protected routes, and the token
   check of WebSocketHandler *)

MaxRequests == 2    \* requests that reach a token check in one run

\* A token is the empty string or a string the verifier accepts or refuses;
\* a header is the empty string or a scheme followed by a token.
NoToken == <<>>

NoHeader == <<>>

BearerPrefix == "Bearer "

\* the tokens the verifier accepts: one per user, signed with the secret
ValidTokens == {<<"signed", u>> : u \in Users}

Tokens == {NoToken} \cup ValidTokens \cup {<<"forged", FirstUser>>}

AuthHeaders ==
    {NoHeader} \cup {<<scheme>> \o t : scheme \in {BearerPrefix, "Basic "}, t \in Tokens}

\* jwt.ExtractUserIDFromToken: the subject of a token the verifier accepts,
\* an error for any other
ExtractUserIDFromToken(token) ==
    IF token \in ValidTokens
    THEN [userID |-> token[2], err |-> FALSE]
    ELSE [userID |-> NoUser, err |-> TRUE]

\* strings.HasPrefix and strings.TrimPrefix on a header
HasPrefix(h, prefix) == Len(h) > 0 /\ h[1] = prefix

TrimPrefix(h, prefix) == IF HasPrefix(h, prefix) THEN Tail(h) ELSE h

\* a verifier that accepts anything
NeverFailed(res) == FALSE

\* err != nil after the call of the verifier
Failed(res) == res.err

ProtectedRoutes ==
    {"POST /stories", "GET /stories/{id}", "GET /feed", "POST /stories/{id}/view",
     "POST /stories/{id}/reactions", "GET /me/stats", "POST /follow/{user_id}",
     "DELETE /follow/{user_id}"}

WebSocketRoute == "GET /ws"

NoCtx == [route |-> "none", cred |-> <<>>, status |-> 0, set |-> FALSE,
          userID |-> NoUser]

AuthInit ==
    /\ ctx = NoCtx
    /\ authCalls = 0

Unauthorized(route, cred) ==
    [route |-> route, cred |-> cred, status |-> 401, set |-> FALSE,
     userID |-> NoUser]

\* the request goes on with the user id in its context
WithUserID(route, cred, userID) ==
    [route |-> route, cred |-> cred, status |-> 0, set |-> TRUE,
     userID |-> userID]

\* AuthMiddleware on a request of a protected route: 401 when the header is
\* missing, does not start with "Bearer ", carries no token, or carries a
\* token the verifier refuses; otherwise the user id is put in the context
\* of the request and the next handler is called.
AuthMiddleware(route, authHeader) ==
    /\ authCalls < MaxRequests
    /\ authCalls' = authCalls + 1
    /\ LET token == TrimPrefix(authHeader, BearerPrefix)
           res == ExtractUserIDFromToken(token)
       IN ctx' = IF \/ authHeader = NoHeader
                    \/ ~HasPrefix(authHeader, BearerPrefix)
                    \/ token = NoToken
                    \/ Failed(res)
                 THEN Unauthorized(route, authHeader)
                 ELSE WithUserID(route, authHeader, res.userID)
    /\ UNCHANGED <<hubVars, storeVars, cacheVars, rateVars, reactVars, pumpVars,
                   limitVars, keyVars, metaVars, outsideVars, workerVars>>

\* WebSocketHandler up to the upgrade: the token of the query is required and
\* verified, 401 otherwise.
WebSocketToken(token) ==
    /\ authCalls < MaxRequests
    /\ authCalls' = authCalls + 1
    /\ LET res == ExtractUserIDFromToken(token)
       IN ctx' = IF token = NoToken \/ Failed(res)
                 THEN Unauthorized(WebSocketRoute, token)
                 ELSE WithUserID(WebSocketRoute, token, res.userID)
    /\ UNCHANGED <<hubVars, storeVars, cacheVars, rateVars, reactVars, pumpVars,
                   limitVars, keyVars, metaVars, outsideVars, workerVars>>

\* GetUserIDFromContext
GetUserIDFromContext(c) == [userID |-> c.userID, ok |-> c.set]

\* the requests whose handler has written to the store or opened a connection
Served ==
    Len(stories) + viewCalls + reactCalls + followCalls
        + Cardinality({c \in ClientIds : cUser[c] # NoUser})

\* the request at hand has reached the handler of the route; a handler that
\* writes runs once for a request
Routed(route) ==
    /\ ctx.route = route
    /\ ctx.status # 401
    /\ GetUserIDFromContext(ctx).ok
    /\ Served < authCalls

\* the handlers behind the middleware, each called with the user id of the
\* context
RoutePostStory ==
    /\ Routed("POST /stories")
    /\ PostStory(GetUserIDFromContext(ctx).userID, "PUBLIC", {})

RouteGetStory(i) ==
    /\ Routed("GET /stories/{id}")
    /\ GetStory(GetUserIDFromContext(ctx).userID, i)

RouteCachedFeed ==
    /\ Routed("GET /feed")
    /\ FeedBegin(GetUserIDFromContext(ctx).userID, "feed")

RouteViewStory(i) ==
    /\ Routed("POST /stories/{id}/view")
    /\ ViewStoryWithEvents(GetUserIDFromContext(ctx).userID, i)

RouteAddReaction(p, i, e) ==
    /\ Routed("POST /stories/{id}/reactions")
    /\ ReactDelete(p, GetUserIDFromContext(ctx).userID, i, e)

RouteGetStats ==
    /\ Routed("GET /me/stats")
    /\ GetCachedUserStats(GetUserIDFromContext(ctx).userID)

RouteFollowUser(g, storeFails) ==
    /\ Routed("POST /follow/{user_id}")
    /\ FollowRequest(GetUserIDFromContext(ctx).userID, g, storeFails)

RouteUnfollowUser(g, storeFails) ==
    /\ Routed("DELETE /follow/{user_id}")
    /\ UnfollowRequest(GetUserIDFromContext(ctx).userID, g, storeFails)

\* WebSocketHandler from the upgrade on, with the user id of the token
RouteWebSocket(c) ==
    /\ ctx.route = WebSocketRoute
    /\ ctx.status # 401
    /\ Served < authCalls
    /\ WebSocketHandler(c, ctx.userID)

\* requests with every kind of credential on every route, and the handlers
\* they reach
AuthNext ==
    \/ \E route \in ProtectedRoutes, h \in AuthHeaders : AuthMiddleware(route, h)
    \/ \E token \in Tokens : WebSocketToken(token)
    \/ RoutePostStory
    \/ \E u \in Users : PostStoryInvalidate(u)
    \/ \E i \in StoryIds : RouteGetStory(i)
    \/ RouteCachedFeed
    \/ \E u \in Users, rows \in Seq1(StoryIds) : FeedQuery(u, rows)
    \/ \E u \in Users : FeedStore(u)
    \/ \E i \in StoryIds : RouteViewStory(i)
    \/ \E p \in Reactors, i \in StoryIds, e \in RequestEmojis :
           RouteAddReaction(p, i, e)
    \/ \E p \in Reactors : ReactInsert(p)
    \/ \E p \in Reactors : ReactPublish(p)
    \/ RouteGetStats
    \/ \E g \in Users, storeFails \in BOOLEAN : RouteFollowUser(g, storeFails)
    \/ \E g \in Users, storeFails \in BOOLEAN : RouteUnfollowUser(g, storeFails)
    \/ \E c \in ClientIds : RouteWebSocket(c)
    \/ \E c \in ClientIds : RecvRegister(c)
    \/ RunRegister

----------------------------------------------------------------------------
(* The expiration worker *)

MaxWorkers == 2     \* instances of the worker running at once

Workers == 1..MaxWorkers

NewWorker == [pc |-> "new", err |-> FALSE, count |-> 0]

WorkerInit ==
    /\ worker = [w \in Workers |-> NewWorker]
    /\ tickReady = [w \in Workers |-> FALSE]
    /\ cancelled = [w \in Workers |-> FALSE]
    /\ counted = [i \in StoryIds |-> 0]

\* a loop that ends with the first iteration that fails
StopOnError(err) == IF err THEN "stopped" ELSE "select"

\* where Start goes on after processExpiredStories returned: the error is
\* logged and the loop goes back to its select
AfterIteration(err) == "select"

\* EphemeralWorker.Start up to its first call of processExpiredStories: the
\* ticker is created and the first iteration runs at once, whatever the
\* context
Start(w) ==
    /\ worker[w].pc = "new"
    /\ worker' = [worker EXCEPT ![w].pc = "processing"]
    /\ UNCHANGED <<tickReady, cancelled, counted>>
    /\ UNCHANGED <<hubVars, storeVars, cacheVars, rateVars, reactVars, pumpVars,
                   limitVars, keyVars, metaVars, authVars, outsideVars>>

\* processExpiredStories: one call of SoftDeleteExpiredStories, which is one
\* UPDATE statement; on an error nothing was written and the error is logged,
\* otherwise the row count is logged.  The context is not consulted.
ProcessExpiredStories(w, fails) ==
    /\ worker[w].pc = "processing"
    /\ IF fails
       THEN /\ worker' = [worker EXCEPT ![w] =
                   [pc |-> AfterIteration(TRUE), err |-> TRUE, count |-> 0]]
            /\ UNCHANGED <<stories, counted>>
       ELSE /\ stories' = SoftDeleted(stories, now)
            /\ counted' = [i \in StoryIds |->
                   IF i \in ExpiredRows(stories, now) THEN counted[i] + 1
                   ELSE counted[i]]
            /\ worker' = [worker EXCEPT ![w] =
                   [pc |-> AfterIteration(FALSE), err |-> FALSE,
                    count |-> Cardinality(ExpiredRows(stories, now))]]
    /\ UNCHANGED <<tickReady, cancelled>>
    /\ UNCHANGED <<audience, follows, now, advances, cacheVars>>
    /\ UNCHANGED <<hubVars, rateVars, reactVars, pumpVars, limitVars, keyVars,
                   metaVars, authVars, outsideVars>>

\* the ticker of a started worker fires: its channel holds one tick, and a
\* tick that finds the channel full is dropped
TickerFires(w) ==
    /\ worker[w].pc \in {"processing", "select"}
    /\ ~tickReady[w]
    /\ tickReady' = [tickReady EXCEPT ![w] = TRUE]
    /\ UNCHANGED <<worker, cancelled, counted>>
    /\ UNCHANGED <<hubVars, storeVars, cacheVars, rateVars, reactVars, pumpVars,
                   limitVars, keyVars, metaVars, authVars, outsideVars>>

\* select, case <-ticker.C: the next iteration
SelectTick(w) ==
    /\ worker[w].pc = "select"
    /\ tickReady[w]
    /\ tickReady' = [tickReady EXCEPT ![w] = FALSE]
    /\ worker' = [worker EXCEPT ![w].pc = "processing"]
    /\ UNCHANGED <<cancelled, counted>>
    /\ UNCHANGED <<hubVars, storeVars, cacheVars, rateVars, reactVars, pumpVars,
                   limitVars, keyVars, metaVars, authVars, outsideVars>>

\* select, case <-ctx.Done(): Start returns
SelectDone(w) ==
    /\ worker[w].pc = "select"
    /\ cancelled[w]
    /\ worker' = [worker EXCEPT ![w].pc = "stopped"]
    /\ UNCHANGED <<tickReady, cancelled, counted>>
    /\ UNCHANGED <<hubVars, storeVars, cacheVars, rateVars, reactVars, pumpVars,
                   limitVars, keyVars, metaVars, authVars, outsideVars>>

\* main: a signal arrives and the context of the worker is cancelled
Cancel(w) ==
    /\ ~cancelled[w]
    /\ cancelled' = [cancelled EXCEPT ![w] = TRUE]
    /\ UNCHANGED <<worker, tickReady, counted>>
    /\ UNCHANGED <<hubVars, storeVars, cacheVars, rateVars, reactVars, pumpVars,
                   limitVars, keyVars, metaVars, authVars, outsideVars>>

\* the instances of the worker while stories are posted and time passes
WorkerNext ==
    \/ \E d \in TimeSteps : Advance(d)
    \/ PostStory(FirstUser, "PUBLIC", {})
    \/ PostStoryInvalidate(FirstUser)
    \/ \E w \in Workers : Start(w)
    \/ \E w \in Workers, fails \in BOOLEAN : ProcessExpiredStories(w, fails)
    \/ \E w \in Workers : TickerFires(w)
    \/ \E w \in Workers : SelectTick(w)
    \/ \E w \in Workers : SelectDone(w)
    \/ \E w \in Workers : Cancel(w)

\* one instance of the worker while stories are posted and time passes
OneWorkerNext ==
    \/ \E d \in TimeSteps : Advance(d)
    \/ PostStory(FirstUser, "PUBLIC", {})
    \/ PostStoryInvalidate(FirstUser)
    \/ Start(1)
    \/ \E fails \in BOOLEAN : ProcessExpiredStories(1, fails)
    \/ TickerFires(1)
    \/ SelectTick(1)
    \/ SelectDone(1)
    \/ Cancel(1)

----------------------------------------------------------------------------
(* The order of a feed *)

MaxRows == 2        \* rows of table stories when the order of feeds is studied

\* LIMIT 50 of the optimized query
FeedLimit == 50

\* the tables stories can hold after up to MaxRows PUBLIC stories were posted
\* at the seconds 0 and 1: ids follow the order of insertion
PostedTables ==
    UNION {{t \in [1..n -> [author : Users, vis : {"PUBLIC"}, created : {0, 1},
                            expires : {StoryLifetime, StoryLifetime + 1},
                            deleted : {FALSE}, deletedAt : {0}]] :
               /\ \A i \in 1..n : t[i].expires = t[i].created + StoryLifetime
               /\ \A i, j \in 1..n : i < j => t[i].created <= t[j].created} :
           n \in 0..MaxRows}

\* the service with the stories already posted and every cache empty
OrderInit ==
    /\ HubInit /\ RateInit /\ ReactInit /\ PumpInit /\ LimitInit
    /\ KeyInit /\ MetaInit /\ AuthInit
    /\ OutsideInit /\ WorkerInit
    /\ stories \in PostedTables
    /\ audience = {}
    /\ follows = {}
    /\ now = 1
    /\ advances = 0
    /\ feedCache = [u \in Users |-> NoEntry]
    /\ storyCache = [i \in StoryIds |-> NoEntry]
    /\ feedReq = IdleFeedReq
    /\ postReq = IdlePostReq
    /\ acked = {}

\* the service with the allowed calls of the limiter being logged
WindowInit ==
    /\ HubInit /\ StoreInit /\ ReactInit /\ PumpInit /\ LimitInit
    /\ KeyInit /\ MetaInit /\ AuthInit /\ OutsideInit /\ WorkerInit
    /\ LimiterInit
    /\ grants = EmptyLog

\* reads of the two feeds
OrderNext ==
    \/ \E u \in Users : FeedBegin(u, "feed")
    \/ \E u \in Users, rows \in Seq1(1..MaxRows) : FeedQuery(u, rows)
    \/ \E u \in Users : FeedStore(u)
    \/ \E v \in Users, fetched \in Seq1(1..MaxRows) : OptimizedFeed(v, fetched)
    \/ \E f, g \in Users : FollowUser(f, g)

----------------------------------------------------------------------------
(* Specifications *)

Init ==
    /\ HubInit /\ StoreInit /\ RateInit /\ ReactInit /\ PumpInit /\ LimitInit
    /\ KeyInit /\ MetaInit /\ AuthInit
    /\ OutsideInit /\ WorkerInit

\* the event hub
Next == HubNext

Spec == Init /\ [][Next]_vars

\* the store, the cache and their handlers
SpecFeed == Init /\ [][StoreNext]_vars

\* the rate limiter under contention
SpecRate == Init /\ [][RateNext]_vars

\* the rate limiter under a burst of successive calls
SpecBurst == Init /\ [][BurstNext]_vars

\* reactions and their events
SpecReact == Init /\ [][ReactNext]_vars

\* views and their events
SpecView == Init /\ [][ViewNext]_vars

\* the event publisher
SpecPublish == Init /\ [][PublishNext]_vars

\* the event hub with writePump in two steps
SpecPump == Init /\ [][PumpNext]_vars

\* reactions with failing statements
SpecReactErr == Init /\ [][ReactErrNext]_vars

\* the optimized feed
SpecMeta == Init /\ [][MetaNext]_vars

\* authentication in front of the handlers
SpecAuth == Init /\ [][AuthNext]_vars

\* the cache layer with values overwritten from outside
SpecCorrupt == Init /\ [][CorruptNext]_vars

\* feeds over a table of stories
SpecOrder == OrderInit /\ [][OrderNext]_vars

\* the expiration worker
SpecWorker == Init /\ [][WorkerNext]_vars

\* one expiration worker with a ticker that keeps firing, a select that takes
\* each ready case in the end, and a store that does not fail for ever
SpecWorkerFair ==
    /\ Init /\ [][OneWorkerNext]_vars
    /\ WF_vars(Start(1))
    /\ WF_vars(TickerFires(1))
    /\ WF_vars(SelectTick(1))
    /\ SF_vars(SelectDone(1))
    /\ SF_vars(ProcessExpiredStories(1, FALSE))

\* follow and unfollow through the cache layer
\* the hub with schedulers that let every goroutine run: Hub.Run goes through
\* the case it has received, its select takes a command that is offered over
\* and over, a read or a write on a closed connection fails, and a writer
\* sees the close of its channel
SpecHubFair ==
    /\ Init /\ [][Next]_vars
    /\ WF_vars(RunRegister) /\ WF_vars(RunUnregister) /\ WF_vars(RunBroadcast)
    /\ \A c \in ClientIds :
           /\ SF_vars(RecvRegister(c))
           /\ SF_vars(RecvUnregisterReader(c))
           /\ SF_vars(RecvUnregisterEvictor(c))
           /\ WF_vars(ReadFail(c) /\ ~connOpen[c])
           /\ WF_vars(WriteFail(c) /\ ~connOpen[c])
           /\ WF_vars(WriteClose(c))

\* views and reactions over the lifecycle of a story
SpecLifecycle == Init /\ [][LifecycleNext]_vars

\* the allowed calls on one bucket over time
SpecWindow == WindowInit /\ [][WindowNext]_vars

\* the buckets of two users of one limiter
SpecBuckets == Init /\ [][BucketsNext]_vars

\* the limiter while DELETE /cache/clear is served
SpecClear == Init /\ [][ClearNext]_vars

SpecFollow == Init /\ [][FollowNext]_vars

\* the cache layer under deletions of its keys
SpecPurge == Init /\ [][PurgeNext]_vars

\* story creation with failing commits
SpecCreate == Init /\ [][CreateNext]_vars

\* GetRemaining and Reset on the buckets of the tests
SpecRemaining == Init /\ [][RemainingNext]_vars

\* the rate limit middleware
SpecLimit == Init /\ [][LimitNext]_vars

----------------------------------------------------------------------------
(* Properties of the hub *)

\* The register command of client c has been processed by Hub.Run.
Processed(c) ==
    /\ rp[c] # "off"
    /\ ~(hubCmd.op = "register" /\ hubCmd.c = c)

\* SendEvent closed the channel of c, which is still the entry of its user.
Overflowed(c) == cUser[c] # NoUser /\ clients[cUser[c]] = c /\ sendClosed[c]

\* C1: while the hub runs, every client whose registration was processed and
\* whose send channel is open is the registry entry of its user, so a user
\* has at most one live channel; in particular a client that was replaced by
\* a later registration of the same user has had its channel closed.
C1_SingleLiveChannel ==
    Alive =>
        \A u \in Users :
            /\ \A c \in ClientIds :
                   (cUser[c] = u /\ Processed(c) /\ ~sendClosed[c]) => clients[u] = c
            /\ Cardinality({c \in ClientIds :
                   cUser[c] = u /\ Processed(c) /\ ~sendClosed[c]}) <= 1

\* A second client of a user was registered: the older one is closed and the
\* newer one is the open registry entry.
C1_Witness ==
    /\ Alive
    /\ \E c1, c2 \in ClientIds :
           /\ c1 # c2 /\ cUser[c1] = cUser[c2] /\ cUser[c1] # NoUser
           /\ Processed(c1) /\ Processed(c2)
           /\ sendClosed[c1] /\ ~sendClosed[c2]
           /\ clients[cUser[c2]] = c2

\* C2: the unregister command of a client never removes another client from
\* the registry: after W2 replaced W1, the teardown of W1 leaves W2 registered.
C2_TeardownKeepsReplacement ==
    [][hubCmd.op = "unregister" =>
           \A u \in Users :
               (clients[u] # NoClient /\ clients[u] # hubCmd.c)
                   => clients'[u] = clients[u]]_vars

\* C3: once SendEvent has closed the channel of a client whose queue was full,
\* the hub keeps running: no later command makes Hub.Run panic, and the
\* unregister command of that client removes it from the registry.
C3_HubSurvivesOverflow ==
    [][(\E c \in ClientIds : Overflowed(c)) =>
           /\ hubPanic' = "none"
           /\ \A c \in ClientIds :
                  (Overflowed(c) /\ hubCmd.op = "unregister" /\ hubCmd.c = c)
                      => clients'[cUser[c]] = NoClient]_vars

\* the sequence s is strictly increasing
Increasing(s) == \A j, k \in 1..Len(s) : j < k => s[j] < s[k]

----------------------------------------------------------------------------
(* Properties of the store, the cache and their handlers *)

Range(f) == {f[k] : k \in DOMAIN f}

\* Visibility predicate I6 plus authorship, for viewer v on story i.
I6(i, v) ==
    \/ stories[i].vis = "PUBLIC"
    \/ stories[i].author = v
    \/ stories[i].vis \in {"FRIENDS", "PRIVATE"} /\ <<i, v>> \in audience

\* Story i is neither expired nor soft-deleted.
Current(i) == stories[i].expires > now /\ ~stories[i].deleted

\* C4: GET /stories/{i} by viewer v answers 404 when story i does not exist,
\* 200 when it exists and the visibility predicate I6 holds for v, and 403
\* when it exists and the predicate fails.
C4_GetStoryStatus ==
    \A v \in Users, i \in StoryIds :
        GetStoryStatus(v, i) =
            IF ~Exists(i) THEN 404 ELSE IF I6(i, v) THEN 200 ELSE 403

\* C5: for every viewer v and every story i that is neither expired nor
\* deleted, i is selected by the feed query of GET /feed and by the query of
\* GET /feed/optimized exactly when the single-story check lets v view i, and
\* that is exactly when I6 holds with FRIENDS and PRIVATE decided by audience.
C5_FeedsMatchCanView ==
    \A v \in Users : \A i \in 1..Len(stories) :
        Current(i) =>
            /\ (i \in GetStoriesForUser(v)) = CanUserViewStory(i, v)
            /\ (i \in GetOptimizedFeedForUser(v)) = CanUserViewStory(i, v)
            /\ CanUserViewStory(i, v) = I6(i, v)

\* C6: no answer of GET /feed, GET /feed/optimized or GET /stories/{id}
\* contains a story that is expired or soft-deleted, whether it is computed
\* from the store or taken from a cache entry; a soft-deleted story is
\* answered 404.
C6_NoExpiredServed ==
    /\ \A v \in Users :
           IF Hit(feedCache[v])
           THEN \A i \in Range(feedCache[v].val) : Current(i)
           ELSE \A i \in GetStoriesForUser(v) : Current(i)
    /\ \A v \in Users : \A i \in GetOptimizedFeedForUser(v) : Current(i)
    /\ \A v \in Users : \A i \in 1..Len(stories) :
           /\ GetStoryStatus(v, i) = 200 => Current(i)
           /\ stories[i].deleted => GetStoryStatus(v, i) = 404

\* C7: once POST /stories by u was answered 201 for story i, every GET /feed
\* of u that begins afterwards answers with a list that contains i (as long
\* as i is current), whether the list comes from feed:user:{u} or from the
\* store.
C7_ReadYourWrites ==
    \A u \in Users :
        /\ Hit(feedCache[u]) =>
               \A i \in Acked(u) : Current(i) => i \in Range(feedCache[u].val)
        /\ (feedReq.pc = "fetched" /\ feedReq.user = u) =>
               \A i \in feedReq.known : Current(i) => i \in Range(feedReq.rows)

\* C8: a current story created at time t that the feed query selects for
\* viewer v is in every GET /feed answer for v served from feed:user:{v} at
\* or after t + FeedCacheDuration.
C8_StalenessBounded ==
    \A v \in Users : \A i \in 1..Len(stories) :
        ( /\ Hit(feedCache[v])
          /\ Current(i)
          /\ FeedVisible(i, v)
          /\ now >= stories[i].created + FeedCacheDuration )
        => i \in Range(feedCache[v].val)

\* C19: when create_story has committed a story, the table story_audience
\* holds for it exactly the requested audience when the visibility is FRIENDS
\* or PRIVATE, and no row when it is PUBLIC.
C19_CreateStoryAtomic ==
    postReq.pc = "committed" =>
        {a \in Users : <<postReq.id, a>> \in audience} =
            IF postReq.vis \in {"FRIENDS", "PRIVATE"} THEN postReq.aud ELSE {}

----------------------------------------------------------------------------
(* Properties of the rate limiter *)

\* C9: starting from an absent bucket of capacity C, of the calls made and
\* evaluated within 1 s of the start of the first call the first C are allowed and
\* every later one is denied, for each of the three buckets and wherever the
\* calls fall relative to the whole seconds of the clock.
C9_BurstExactlyCapacity ==
    burst.open => burst.allowed = Min(burst.calls, capacity)

\* C10: of the calls evaluated on one bucket since it held t tokens with no
\* refill in between, exactly min(t, number of calls) are allowed, in every
\* interleaving of the concurrent callers, and never more than the capacity.
C10_AtomicAllow ==
    /\ epoch.allowed = Min(epoch.tokens, epoch.calls)
    /\ epoch.allowed <= capacity

\* Concurrent callers have drained a bucket and one of them was denied.
C10_Witness ==
    /\ epoch.contended
    /\ epoch.tokens > 0
    /\ epoch.calls > epoch.tokens
    /\ epoch.allowed = epoch.tokens

----------------------------------------------------------------------------
(* Properties of views, reactions and the publisher *)

\* a reaction request for story i by user u is in progress
ReactInFlight(i, u) ==
    \E p \in Reactors : /\ reactReq[p].pc # "idle"
                        /\ reactReq[p].story = i
                        /\ reactReq[p].user = u

C12_ReactionUnique ==
    \A i \in StoryIds, u \in Users :
        /\ BagCardinality(ReactionRows(i, u)) <= 1
        /\ lastReact[<<i, u>>].emoji # NoEmoji =>
               BagCardinality(ReactionRows(i, u)) = 1

\* C13: every view request on an existing story succeeds, and after it the
\* table story_views holds exactly one row for (story, viewer).
C13_ViewIdempotent ==
    \A r \in viewLog :
        r.status = 200 /\ Len(ViewRows(r.story, r.viewer)) = 1

\* C14: the view requests of a viewer other than the author on one story emit
\* at most one story.viewed event in total, and exactly one when the author was
\* connected at the first of them.
C14_ViewedOnce ==
    \A r \in viewLog :
        r.viewer # stories[r.story].author =>
            LET evs == EventsOf(EventStoryViewed, r.story, r.viewer)
            IN /\ Len(evs) <= 1
               /\ (r.first /\ r.online) => Len(evs) = 1

\* C15: no event handed to the hub has its actor as recipient.
C15_NoSelfEvents ==
    \A k \in 1..Len(published) : published[k].actor # published[k].to

\* a connected author viewed or reacted to their own story, and another event
\* was published
C15_Witness == selfCalls > 0 /\ Len(published) > 0

\* C17: a reaction request with an emoji outside the six is answered 400 and
\* changes neither the table reactions nor the published events; every stored
\* reaction_type and every published emoji is one of the six.
C17_OnlyValidEmojis ==
    /\ [](/\ \A r \in DOMAIN reactions : r.type \in ValidEmojis
          /\ \A k \in 1..Len(published) :
                 published[k].type = EventStoryReacted =>
                     published[k].emoji \in ValidEmojis
          /\ rejected \cap ValidEmojis = {})
    /\ [][rejected' # rejected =>
              /\ reactions' = reactions
              /\ published' = published
              /\ reactReq' = reactReq]_vars

\* an emoji outside the six was rejected while a reaction row is stored
C17_Witness == "poop" \in rejected /\ reactions # EmptyBag

----------------------------------------------------------------------------
(* Properties of the rate limit middleware *)

\* C20: a request the limiter denied is answered 429 with X-RateLimit-Limit
\* equal to the capacity of the action and X-RateLimit-Reset 60, and is not
\* handed to the wrapped handler; its X-RateLimit-Remaining is 0 unless, when
\* GetRemaining ran, the key had expired or a refill of at least one token had
\* come due since the last refill; a request on which the limiter failed is
\* answered 500 and is not handed to the handler either.
C20_DenyAnswer ==
    /\ mwResp.verdict = "denied" =>
           /\ mwResp.status = 429
           /\ mwResp.limit = capacity
           /\ mwResp.reset = 60
           /\ ~mwResp.next
           /\ mwResp.remaining # 0 =>
                  \/ mwResp.since = Expired
                  \/ TokensToAdd(mwResp.since, capacity) >= 1
    /\ mwResp.verdict = "failed" => mwResp.status = 500 /\ ~mwResp.next

\* the request after a burst of capacity requests within one second is denied
\* and answered 429 with X-RateLimit-Remaining 0
C20_Witness ==
    /\ mwResp.verdict = "denied"
    /\ mwResp.remaining = 0
    /\ started = capacity + 1
    /\ ticks < TicksPerSec

\* C20 as stated: every denied request is answered with
\* X-RateLimit-Remaining 0.
C20_DenyResponse ==
    /\ mwResp.verdict = "denied" =>
           /\ mwResp.status = 429
           /\ mwResp.limit = capacity
           /\ mwResp.remaining = 0
           /\ mwResp.reset = 60
           /\ ~mwResp.next
    /\ mwResp.verdict = "failed" => mwResp.status = 500 /\ ~mwResp.next

----------------------------------------------------------------------------
(* GetRemaining *)

\* C24: GetRemaining returns the capacity when the key of the bucket is
\* absent (never used, reset or expired), and the capacity less the number of
\* allowed calls when the bucket was full and no refill has come due since;
\* and a call of GetRemaining leaves the stored bucket as it was.
C24_RemainingCounts ==
    /\ [](remaining.value # -1 =>
            /\ remaining.fresh => remaining.value = capacity
            /\ (remaining.full /\ ~remaining.due) =>
                   remaining.value = capacity - remaining.allowed)
    /\ [][remaining' # remaining => bucket' = bucket]_vars

\* the test's case: three calls allowed on the bucket of ten, seven remain
C24_Witness ==
    /\ capacity = RemainingTestCapacity
    /\ remaining.full /\ ~remaining.due
    /\ remaining.allowed = 3
    /\ remaining.value = 7

----------------------------------------------------------------------------
(* The hub's command channels *)

\* the send queue of user u's registered client is open and has room
HasRoom(u) ==
    /\ clients[u] # NoClient
    /\ ~sendClosed[clients[u]]
    /\ Len(send[clients[u]]) < SendCap

\* C25: an event published for a registered author whose send queue has room
\* is handed to the hub: the broadcast is on the command channel, to be
\* processed by Hub.Run, and is never dropped.  (Every registered user has
\* room in the states the formula speaks of, so the author has.)
C25_BroadcastNeverDropped ==
    [][(/\ nextEvent' = nextEvent + 1
        /\ \A u \in Users : clients[u] # NoClient => HasRoom(u))
       => (hubCmd'.op = "broadcast" /\ hubCmd'.ev = nextEvent')]_vars

\* C26: Hub.Run never closes a send channel that is already closed and never
\* sends on a closed one (either would end Hub.Run with a panic), and when it
\* is about to process a broadcast every addressed user found in the registry
\* has an open send channel.
C26_ChannelsClosedOnce ==
    /\ hubPanic = "none"
    /\ hubCmd.op = "broadcast" =>
           \A k \in 1..Len(hubCmd.to) :
               clients[hubCmd.to[k]] # NoClient
                   => ~sendClosed[clients[hubCmd.to[k]]]

----------------------------------------------------------------------------
(* Errors of the store *)

\* C27: Postgres.CreateStory returns a story id without an error, and the
\* cache layer goes on to its invalidations, only when the transaction was
\* committed: the table stories has the row with that id.
C27_SuccessMeansCommitted ==
    postReq.pc = "committed" => Exists(postReq.id)

\* C28: when Postgres.AddReaction returns an error, the reaction the user had
\* on the story is still in table reactions.  The formula speaks of a failing
\* request of user u on story i that ran alone on (i, u), after a request that
\* had stored an emoji for (i, u).
C28_ErrorKeepsPrior ==
    [][\A p \in Reactors :
          (reactReq[p].pc = "deleted" /\ reactReq'[p].pc = "idle") =>
              LET i == reactReq[p].story
                  u == reactReq[p].user
                  prior == lastReact[<<i, u>>]
              IN (/\ prior.emoji # NoEmoji
                  /\ ~prior.overlapped
                  /\ \A q \in Reactors \ {p} : reactReq[q].pc = "idle")
                 => [story |-> i, user |-> u, type |-> prior.emoji]
                        \in BagToSet(reactions')]_vars

----------------------------------------------------------------------------
(* Invalidation of the cache keys *)

\* C29: when CacheService.CreateStory returns after a create of author a, the
\* keys feed:user:{a}, user:stats:{a} and user:followees:{a} are absent; for a
\* PUBLIC or FRIENDS story so is feed:user:{f} of every follower f of a, and
\* for a PRIVATE story feed:user:{x} of every member x of the audience.
C29_CreateInvalidates ==
    [][(postReq.pc = "committed" /\ postReq' = IdlePostReq) =>
          LET a == postReq.user
          IN /\ ~feedCache'[a].present
             /\ ~statsCache'[a].present
             /\ ~followeesCache'[a].present
             /\ postReq.vis \in {"PUBLIC", "FRIENDS"} =>
                    \A f \in Users :
                        <<f, a>> \in follows => ~feedCache'[f].present
             /\ postReq.vis = "PRIVATE" =>
                    \A x \in postReq.aud : ~feedCache'[x].present]_vars

\* the keys that follow(f, g) and unfollow(f, g) are to delete
FollowKeys(f, g) ==
    {<<"feed", f>>, <<"followees", f>>, <<"stats", g>>, <<"followees", g>>}

----------------------------------------------------------------------------
(* The optimized feed *)

\* C21: every story that GET /feed/optimized returns to viewer v carries the
\* number of distinct viewers in story_views as view_count, the number of
\* distinct users in reactions as reaction_count, user_has_viewed exactly
\* when v has a view row, and v's own reaction as user_reaction (none when v
\* has not reacted), as the tables stand when the answer is given.  A field
\* the response lacks is read as zero, false or empty.
C21_FeedCarriesCounts ==
    [][\A v \in Users :
          (metaResp' # metaResp /\ metaResp'.viewer = v) =>
              \A k \in 1..Len(metaResp'.rows) :
                  LET row == metaResp'.rows[k]
                      i == row.id
                      viewers == {views[j].user :
                                     j \in {n \in 1..Len(views) : views[n].story = i}}
                      reactors == {r.user : r \in {x \in DOMAIN reactions :
                                                       x.story = i}}
                      own == {r.type : r \in {x \in DOMAIN reactions :
                                                  x.story = i /\ x.user = v}}
                  IN /\ row.view_count = Cardinality(viewers)
                     /\ row.reaction_count = Cardinality(reactors)
                     /\ row.user_has_viewed = (v \in viewers)
                     /\ IF own = {} THEN row.user_reaction = NoEmoji
                        ELSE row.user_reaction \in own]_vars

----------------------------------------------------------------------------
(* Authentication *)

\* the bearer token a request presented: the token of the query on GET /ws,
\* what follows "Bearer " in the Authorization header elsewhere
PresentedToken(c) ==
    IF c.route = WebSocketRoute THEN c.cred
    ELSE IF Len(c.cred) > 0 /\ c.cred[1] = "Bearer " THEN Tail(c.cred)
    ELSE <<>>

----------------------------------------------------------------------------
(* Values that do not deserialize *)

\* the time to live of the family of key k
FamilyTTL(k) ==
    CASE k[1] = "feed" -> FeedCacheDuration
      [] k[1] = "followees" -> FolloweesCacheDuration
      [] k[1] = "stats" -> StatsCacheDuration
      [] OTHER -> StoryCacheDuration

\* C31: a cached value that cannot be deserialized is treated as absent: no
\* read is answered from it, and the read that finds it returns the current
\* result of the store without an error and overwrites the key with a valid
\* serialization of that result under the time to live of the key's family.
C31_GarbledReadAsAbsent ==
    /\ [](\A k \in AllKeys : Hit(KeyEntry(k)) => KeyEntry(k).valid)
    /\ [][(feedReq.pc = "miss" /\ feedReq'.pc # "miss") =>
              /\ feedReq'.pc = "fetched"
              /\ feedReq'.rows \in Ordered(GetStoriesForUser(feedReq.user))]_vars
    /\ [][\A k \in AllKeys :
              (/\ KeyEntry(k).present
               /\ ~KeyEntry(k).valid
               /\ (KeyEntry(k))' # KeyEntry(k)) =>
                  \/ ~(KeyEntry(k).present)'
                  \/ /\ (KeyEntry(k).valid)'
                     /\ (KeyEntry(k).exp)' = now + FamilyTTL(k)
                     /\ (KeyEntry(k).val)' =
                            CASE k[1] = "feed" -> feedReq.rows
                              [] k[1] = "followees" -> StoreFollowees(k[2])
                              [] k[1] = "stats" -> GetUserStats(k[2])
                              [] OTHER -> <<k[2]>>
                     /\ k[1] = "feed" => feedReq.pc = "fetched" /\ feedReq.user = k[2]
                     /\ k[1] = "story" => Exists(k[2])]_vars

\* the feed and a story of the first user were overwritten with bytes that
\* are no JSON, and reads have since put the store's rows back under both keys
C31_Witness ==
    /\ {<<"feed", FirstUser>>, <<"story", 1>>} \subseteq corrupted
    /\ Hit(feedCache[FirstUser])
    /\ feedCache[FirstUser].val = <<1>>
    /\ Hit(storyCache[1])

----------------------------------------------------------------------------
(* The order of a feed *)

\* the list of story ids is sorted by created_at descending, equal created_at
\* by id descending
SortedFeed(rows) ==
    \A a, b \in 1..Len(rows) :
        a < b => \/ stories[rows[a]].created > stories[rows[b]].created
                 \/ /\ stories[rows[a]].created = stories[rows[b]].created
                    /\ rows[a] > rows[b]

\* C32: every result of GET /feed and of GET /feed/optimized holds at most
\* 50 stories and is sorted by created_at descending, stories of equal
\* created_at by id descending, so that one state of the store yields one
\* sequence.
C32_FeedSortedAndBounded ==
    /\ feedReq.pc = "fetched" =>
           /\ Len(feedReq.rows) <= FeedLimit
           /\ SortedFeed(feedReq.rows)
    /\ metaResp.status = 200 =>
           /\ Len(metaResp.rows) <= FeedLimit
           /\ SortedFeed([k \in 1..Len(metaResp.rows) |-> metaResp.rows[k].id])

----------------------------------------------------------------------------
(* The expiration worker *)

----------------------------------------------------------------------------
(* The soft delete *)

\* the stories a step marks as deleted
NewlyDeleted == {i \in DOMAIN stories : ~stories[i].deleted /\ stories'[i].deleted}

----------------------------------------------------------------------------
(* Callers of the hub *)

\* C35: a caller that has reached its send on a command channel of the hub
\* completes it at once: the WebSocket handler on register and a reader's
\* deferred function on unregister never wait for Hub.Run.
C35_CallersNeverBlock ==
    \A c \in ClientIds :
        /\ handler[c] = "registering" => ENABLED RecvRegister(c)
        /\ rp[c] = "unregistering" => ENABLED RecvUnregisterReader(c)

----------------------------------------------------------------------------
(* Teardown of a connection *)

\* the reader of c has returned, the hub holds no entry for c, the send
\* channel of c is closed and the writer of c has returned
CleanedUp(c) ==
    /\ rp[c] = "done"
    /\ wp[c] = "done"
    /\ sendClosed[c]
    /\ cUser[c] # NoUser /\ clients[cUser[c]] # c

\* the connection of c has failed: its reader left its loop or its writer
\* returned on a failed write
ConnFailed(c) == rp[c] = "unregistering" \/ (wp[c] = "done" /\ ~sendClosed[c])

----------------------------------------------------------------------------
(* Views and reactions over the lifecycle of a story *)

\* story i is ACTIVE: it exists, is not soft-deleted and its expires_at is not
\* in the past
Active(i) == Exists(i) /\ ~stories[i].deleted /\ ~(stories[i].expires < now)

\* C37: a view or a reaction is recorded only while the story is ACTIVE: a
\* request on an expired or soft-deleted story is answered 404 before any
\* write, so that every step that passes the existence check of the view
\* handler, adds a row to story_views or to reactions, or publishes an event,
\* does so for a story that is ACTIVE.
C37_RecordedOnlyWhileActive ==
    [][/\ \A r \in viewLog' \ viewLog : Active(r.story)
       /\ Len(views') > Len(views) => Active(views'[Len(views')].story)
       /\ \A r \in BagToSet(reactions') :
              CopiesIn(r, reactions') > CopiesIn(r, reactions) => Active(r.story)
       /\ Len(published') > Len(published)
              => Active(published'[Len(published')].story)]_vars

----------------------------------------------------------------------------
(* Allowed calls over an interval *)

\* the clock readings, in seconds, of the allowed calls i to j of the log
Stamps(i, j) == {Unix(grants.at[k]) : k \in i..j}

\* the times, in ticks, at which the allowed calls i to j read the clock
Times(i, j) == {grants.at[k] : k \in i..j}

Largest(S) == CHOOSE x \in S : \A y \in S : y <= x
Smallest(S) == CHOOSE x \in S : \A y \in S : x <= y

\* the script of caller p runs in this step
Evaluates(p) == call[p].pc = "eval" /\ call'[p].pc = "idle" /\ ret'[p] # "none"

----------------------------------------------------------------------------
(* The stored token count *)

\* the token count of a stored hash lies between 0 and the capacity
InRange(b) == b.present => 0 <= b.tokens /\ b.tokens <= capacity

\* the tokens of the bucket after the refill that is due at second n
AfterRefill(n) ==
    LET tokens0 == IF Live THEN bucket.tokens ELSE capacity
        added == IF Live THEN ((n - bucket.last) * capacity) \div Window ELSE 0
    IN IF added <= 0 THEN tokens0
       ELSE IF tokens0 + added > capacity THEN capacity
       ELSE tokens0 + added

\* C39: the stored token count of every bucket is between 0 and the capacity;
\* an allowed call stores one token less than the bucket holds after the
\* refill, a denied call finds no token after the refill and stores 0, and a
\* call on the key of one user leaves the key of the other as it is.
C39_TokensInRange ==
    /\ [](InRange(bucket) /\ InRange(neighbour))
    /\ [][/\ Evaluates(1) =>
                /\ ret'[1] = "allowed" =>
                       bucket'.tokens = AfterRefill(call[1].now) - 1
                /\ ret'[1] = "denied" =>
                       AfterRefill(call[1].now) = 0 /\ bucket'.tokens = 0
                /\ neighbour' = neighbour
          /\ neighbour' # neighbour => bucket' = bucket]_vars

\* the bucket of one user was refilled to the capacity and holds one token
\* less, while the other user has spent several tokens of their own
C39_Witness ==
    /\ bucket.present /\ bucket.last > 0 /\ bucket.tokens = capacity - 1
    /\ neighbour.present /\ neighbour.tokens < capacity - 1

----------------------------------------------------------------------------
(* DELETE /cache/clear and the buckets *)

\* C40: a request to DELETE /cache/clear, whatever its type, leaves the
\* bucket of every user as it is.
C40_ClearKeepsBuckets ==
    [][cleared' # cleared => bucket' = bucket /\ neighbour' = neighbour]_vars

====
